---- MODULE Spec2Model ----
(***************************************************************************)
(* A model of peter_redis: the typed store (database.rs), the command      *)
(* engine with per-connection transactions and replication propagation     *)
(* (engine.rs, commands.rs, common.rs) and the wire serialisation          *)
(* (resp.rs).                                                              *)
(*                                                                         *)
(* Rust Strings are modelled as sequences of one-character strings, so     *)
(* that lengths, decimal formatting and decimal parsing are computed the   *)
(* way the code computes them.  Message texts of error replies are kept as *)
(* opaque TLA+ strings: no operation of the program inspects them.         *)
(***************************************************************************)
EXTENDS Integers, Sequences, FiniteSets, TLC

(***************************************************************************)
(* Bounds of the model.                                                    *)
(***************************************************************************)
\* i64::MAX, scaled down: the model's i64 is the range -(I64_MAX+1)..I64_MAX.
I64_MAX == 7
\* The wall clock takes the values 0..MaxTime.
MaxTime == 3
\* Store-level runs: lists and streams hold at most this many elements.
MaxList == 2
MaxStream == 2
\* Engine-level runs: commands read from all connections together.
MaxCmds == 5
\* Engine-level runs: commands one transaction may queue.
MaxTx == 2
\* WAIT runs: the offsets a follower may acknowledge are those of 0..MaxAck
\* propagated commands, and the leader propagates at most MaxWrites commands.
MaxAck == 2
MaxWrites == 1
\* WAIT runs: frames the followers send in answer to GETACK, all together.
MaxReplies == 2
\* Blocking-pop runs: commands read from all connections together.
MaxBlockCmds == 3
\* Pipelined runs: frames a client sends.
MaxPipe == 2
\* Wire forms: the largest part of a stream id and the largest count of a pop.
MaxWireId == 1
\* Wire values: the largest absolute value of an Integer.
MaxRespInt == 1
\* Parser runs: the largest number of arguments of a command.
MaxArgs == 5
\* KEYS: the longest pattern and the longest key.
MaxPattern == 2
\* Follower runs: frames the leader writes to the follower after the snapshot.
MaxFrames == 3
\* Write-queue runs: the commands the leader propagates.
MaxQueue == 2

\* Pop runs: the commands the connections send.
MaxPopCmds == 4

\* Mirror runs: the commands the one client of the leader sends.
MaxMirrorCmds == 4
\* usize::MAX and u128::MAX, scaled down (no length of the model comes near).
USIZE_MAX == 1000000

(***************************************************************************)
(* Strings and numbers: format!("{}", n) and from_str_radix(s, 10).        *)
(***************************************************************************)
Digits == <<"0", "1", "2", "3", "4", "5", "6", "7", "8", "9">>

digit_value(c) ==
    IF \E i \in 1..10 : Digits[i] = c
    THEN (CHOOSE i \in 1..10 : Digits[i] = c) - 1
    ELSE -1

RECURSIVE to_string(_)
to_string(n) ==
    IF n < 0 THEN <<"-">> \o to_string(-n)
    ELSE IF n < 10 THEN <<Digits[n + 1]>>
    ELSE to_string(n \div 10) \o <<Digits[(n % 10) + 1]>>

\* Folds the digits left to right; -1 for a non-digit or a value above limit.
RECURSIVE parse_digits(_, _, _)
parse_digits(s, acc, limit) ==
    IF s = <<>> THEN acc
    ELSE LET d == digit_value(Head(s))
         IN  IF d < 0 \/ acc * 10 + d > limit THEN -1
             ELSE parse_digits(Tail(s), acc * 10 + d, limit)

Ok(v) == [ok |-> TRUE, v |-> v]
Err(e) == [ok |-> FALSE, e |-> e]

\* i64::from_str_radix(s, 10): optional sign, at least one digit, in range.
i64_from_str_radix(s) ==
    IF s = <<>> THEN Err("ParseIntError")
    ELSE LET neg  == Head(s) = "-"
             body == IF Head(s) \in {"+", "-"} THEN Tail(s) ELSE s
             m    == parse_digits(body, 0, IF neg THEN I64_MAX + 1 ELSE I64_MAX)
         IN  IF body = <<>> \/ m < 0 THEN Err("ParseIntError")
             ELSE Ok(IF neg THEN 0 - m ELSE m)

(***************************************************************************)
(* resp.rs: wire values and their serialisation.                           *)
(***************************************************************************)
SimpleString(s) == [tag |-> "SimpleString", s |-> s]
BulkString(s)   == [tag |-> "BulkString", s |-> s]
NullBulkString  == [tag |-> "NullBulkString"]
Array(list)     == [tag |-> "Array", list |-> list]
NullArray       == [tag |-> "NullArray"]
Integer(n)      == [tag |-> "Integer", n |-> n]
SimpleError(s)  == [tag |-> "SimpleError", s |-> s]
BulkBytes(bytes) == [tag |-> "BulkBytes", bytes |-> bytes]

CRLF == <<"\r", "\n">>

RECURSIVE serialize(_)
RECURSIVE serialize_all(_)
serialize_all(list) ==
    IF list = <<>> THEN <<>>
    ELSE serialize(Head(list)) \o serialize_all(Tail(list))

serialize(v) ==
    CASE v.tag = "SimpleString"   -> <<"+">> \o v.s \o CRLF
      [] v.tag = "BulkString"     -> <<"$">> \o to_string(Len(v.s)) \o CRLF \o v.s \o CRLF
      [] v.tag = "Array"          -> <<"*">> \o to_string(Len(v.list)) \o CRLF
                                        \o serialize_all(v.list)
      [] v.tag = "NullBulkString" -> <<"$", "-", "1">> \o CRLF
      [] v.tag = "Integer"        -> <<":">> \o to_string(v.n) \o CRLF
      [] v.tag = "SimpleError"    -> <<"-">> \o v.s \o CRLF
      [] v.tag = "NullArray"      -> <<"*", "-", "1">> \o CRLF
      [] v.tag = "BulkBytes"      -> <<"$">> \o to_string(Len(v.bytes)) \o CRLF \o v.bytes

(***************************************************************************)
(* commands.rs: the commands, the replication classifier and the wire form *)
(* the leader emits.                                                       *)
(***************************************************************************)
None == [some |-> FALSE]
Some(v) == [some |-> TRUE, v |-> v]

\* common.rs StreamEntryID; a CompleteStreamEntryID is the pair <<ms, seq>>.
Wildcard == [kind |-> "Wildcard"]
MsOnly(ms) == [kind |-> "MsOnly", ms |-> ms]
Full(ms, seq) == [kind |-> "Full", id |-> <<ms, seq>>]

Ping == [op |-> "Ping"]
Set(key, value, expiry) == [op |-> "Set", key |-> key, value |-> value, expiry |-> expiry]
Get(key) == [op |-> "Get", key |-> key]
Rpush(key, values) == [op |-> "Rpush", key |-> key, values |-> values]
Lpush(key, values) == [op |-> "Lpush", key |-> key, values |-> values]
Lrange(key, start, end) == [op |-> "Lrange", key |-> key, start |-> start, end |-> end]
Llen(key) == [op |-> "Llen", key |-> key]
Lpop(key) == [op |-> "Lpop", key |-> key]
Rpop(key) == [op |-> "Rpop", key |-> key]
Lpopn(key, n) == [op |-> "Lpopn", key |-> key, n |-> n]
Rpopn(key, n) == [op |-> "Rpopn", key |-> key, n |-> n]
Blpop(keys, timeout_secs) == [op |-> "Blpop", keys |-> keys, timeout_secs |-> timeout_secs]
Brpop(keys, timeout_secs) == [op |-> "Brpop", keys |-> keys, timeout_secs |-> timeout_secs]
Type(key) == [op |-> "Type", key |-> key]
Xadd(key, id, kvpairs) == [op |-> "Xadd", key |-> key, id |-> id, kvpairs |-> kvpairs]
Incr(key) == [op |-> "Incr", key |-> key]
Multi == [op |-> "Multi"]
Exec == [op |-> "Exec"]
Discard == [op |-> "Discard"]
Wait(replica_count, timeout_ms) ==
    [op |-> "Wait", replica_count |-> replica_count, timeout_ms |-> timeout_ms]

is_exec(command) == command.op = "Exec"
is_multi(command) == command.op = "Multi"
is_discard(command) == command.op = "Discard"

\* A classifier that also propagates the blocking pops.
for_replication_blocking(command) ==
    command.op \in {"Set", "Rpush", "Lpush", "Lpop", "Rpop", "Lpopn", "Rpopn",
                    "Xadd", "Incr", "Zadd", "Geoadd", "Blpop", "Brpop"}

\* A classification that leaves the pops out.
for_replication_without_pops(command) ==
    command.op \in {"Set", "Rpush", "Lpush", "Xadd", "Incr", "Zadd", "Geoadd"}

for_replication(command) ==
    command.op \in {"Set", "Rpush", "Lpush", "Lpop", "Rpop", "Lpopn", "Rpopn",
                    "Xadd", "Incr", "Zadd", "Geoadd"}

to_resp_string(id) ==
    CASE id.kind = "Wildcard" -> <<"*">>
      [] id.kind = "MsOnly"   -> to_string(id.ms)
      [] id.kind = "Full"     -> to_string(id.id[1]) \o <<"-">> \o to_string(id.id[2])

RECURSIVE bulk_strings(_)
bulk_strings(strs) ==
    IF strs = <<>> THEN <<>>
    ELSE <<BulkString(Head(strs))>> \o bulk_strings(Tail(strs))

RECURSIVE flatten_pairs(_)
flatten_pairs(kvpairs) ==
    IF kvpairs = <<>> THEN <<>>
    ELSE <<Head(kvpairs)[1], Head(kvpairs)[2]>> \o flatten_pairs(Tail(kvpairs))

into_resp(command) ==
    CASE command.op = "Set" ->
            Array(bulk_strings(<<<<"S", "E", "T">>, command.key, command.value>>
                \o (IF command.expiry.some
                    THEN <<<<"P", "X">>, to_string(command.expiry.v)>>
                    ELSE <<>>)))
      [] command.op = "Rpush" ->
            Array(bulk_strings(<<<<"R", "P", "U", "S", "H">>, command.key>> \o command.values))
      [] command.op = "Lpush" ->
            Array(bulk_strings(<<<<"L", "P", "U", "S", "H">>, command.key>> \o command.values))
      [] command.op = "Lpop" ->
            Array(bulk_strings(<<<<"L", "P", "O", "P">>, command.key>>))
      [] command.op = "Rpop" ->
            Array(bulk_strings(<<<<"R", "P", "O", "P">>, command.key>>))
      [] command.op = "Lpopn" ->
            Array(bulk_strings(<<<<"L", "P", "O", "P">>, command.key, to_string(command.n)>>))
      [] command.op = "Rpopn" ->
            Array(bulk_strings(<<<<"R", "P", "O", "P">>, command.key, to_string(command.n)>>))
      [] command.op = "Xadd" ->
            Array(bulk_strings(<<<<"X", "A", "D", "D">>, command.key, to_resp_string(command.id)>>
                \o flatten_pairs(command.kvpairs)))
      [] command.op = "Incr" ->
            Array(bulk_strings(<<<<"I", "N", "C", "R">>, command.key>>))

Replconf(args) == [op |-> "Replconf", args |-> args]

is_replconf(command) == command.op = "Replconf"

(***************************************************************************)
(* network.rs: StreamReader.  The stream is the sequence of bytes that have *)
(* arrived and are not read yet; reading a value yields the value, the     *)
(* rest of the stream and the number of bytes the lines it read hold.      *)
(***************************************************************************)
Whitespace == {" ", "\t", "\r", "\n"}

\* str::trim
RECURSIVE trim_start(_)
trim_start(s) ==
    IF s # <<>> /\ Head(s) \in Whitespace THEN trim_start(Tail(s)) ELSE s

RECURSIVE trim_end(_)
trim_end(s) ==
    IF s # <<>> /\ s[Len(s)] \in Whitespace THEN trim_end(SubSeq(s, 1, Len(s) - 1)) ELSE s

trim(s) == trim_end(trim_start(s))

\* usize::from_str_radix(s, 10): an optional '+', at least one digit.
usize_from_str_radix(s) ==
    IF s = <<>> THEN Err("ParseIntError")
    ELSE LET body == IF Head(s) = "+" THEN Tail(s) ELSE s
             m    == parse_digits(body, 0, USIZE_MAX)
         IN  IF body = <<>> \/ m < 0 THEN Err("ParseIntError") ELSE Ok(m)

\* read_line_from_tcp_stream: the bytes up to and including the first "\n"
\* (all of them when the stream ends before one).
read_line_from_tcp_stream(stream) ==
    LET ends == {i \in 1..Len(stream) : stream[i] = "\n"}
    IN  IF ends = {} THEN [line |-> stream, rest |-> <<>>]
        ELSE LET i == CHOOSE i \in ends : \A j \in ends : i <= j
             IN  [line |-> SubSeq(stream, 1, i), rest |-> SubSeq(stream, i + 1, Len(stream))]

ReadResult(res, rest, count) == [res |-> res, rest |-> rest, count |-> count]

\* read_resp_value, and its loop over the items of an array.
RECURSIVE read_resp_value(_)
RECURSIVE read_items(_, _, _, _)
read_items(stream, array_len, items, count) ==
    IF array_len = 0 THEN ReadResult(Ok(items), stream, count)
    ELSE LET r == read_resp_value(stream)
         IN  IF ~r.res.ok THEN ReadResult(r.res, r.rest, count + r.count)
             ELSE IF ~r.res.v.some
                  THEN ReadResult(Err("Missing array item"), r.rest, count + r.count)
             ELSE read_items(r.rest, array_len - 1, Append(items, r.res.v.v),
                             count + r.count)

read_resp_value(stream) ==
    LET l    == read_line_from_tcp_stream(stream)
        line == l.line
    IN  IF line = <<>> THEN ReadResult(Ok(None), l.rest, 0)
        ELSE IF Head(line) = "+"
        THEN ReadResult(Ok(Some(SimpleString(trim(Tail(line))))), l.rest, Len(line))
        ELSE IF Head(line) = "$"
        THEN LET bulk_str_len == usize_from_str_radix(trim(Tail(line)))
                 n == read_line_from_tcp_stream(l.rest)
                 count == Len(line) + Len(n.line)
             IN  IF ~bulk_str_len.ok
                 THEN ReadResult(Err("parse-bulk-str-len"), l.rest, Len(line))
                 ELSE IF Len(trim(n.line)) # bulk_str_len.v
                 THEN ReadResult(Err("Bulk string len mismatch"), n.rest, count)
                 ELSE ReadResult(Ok(Some(BulkString(trim(n.line)))), n.rest, count)
        ELSE IF Head(line) = "*"
        THEN LET array_len == usize_from_str_radix(trim(Tail(line)))
             IN  IF ~array_len.ok
                 THEN ReadResult(Err("parse-array-len"), l.rest, Len(line))
                 ELSE LET r == read_items(l.rest, array_len.v, <<>>, Len(line))
                      IN  IF r.res.ok THEN ReadResult(Ok(Some(Array(r.res.v))), r.rest, r.count)
                          ELSE r
        ELSE IF Head(line) = ":"
        THEN LET v == i64_from_str_radix(trim(Tail(line)))
             IN  IF v.ok THEN ReadResult(Ok(Some(Integer(v.v))), l.rest, Len(line))
                 ELSE ReadResult(Err("parse-array-len"), l.rest, Len(line))
        ELSE ReadResult(Err("Unexpected incoming RESP string"), l.rest, Len(line))

\* read_bulk_bytes_from_tcp_stream: a size line and that many bytes.
read_bulk_bytes_from_tcp_stream(stream) ==
    LET l == read_line_from_tcp_stream(stream)
        size_raw == trim_end(l.line)
    IN  IF size_raw = <<>> \/ Head(size_raw) # "$"
        THEN ReadResult(Err("Invalid start of size for bulk bytes"), l.rest, Len(l.line))
        ELSE LET size == usize_from_str_radix(Tail(size_raw))
             IN  IF ~size.ok THEN ReadResult(Err("convert-size-to-usize"), l.rest, Len(l.line))
                 ELSE IF Len(l.rest) < size.v
                 THEN ReadResult(Err("number-read"), <<>>, Len(l.line))
                 ELSE ReadResult(Ok(SubSeq(l.rest, 1, size.v)),
                                 SubSeq(l.rest, size.v + 1, Len(l.rest)),
                                 Len(l.line) + size.v)

\* StreamReader::new, reset_byte_counter, commit_byte_count; reading a value
\* adds the bytes of its lines to the uncommitted counter.
StreamReader_new == [uncommitted_byte_count |-> 0, byte_count |-> 0]

reset_byte_counter(reader) == [uncommitted_byte_count |-> 0, byte_count |-> 0]

\* A commit that never happens.
commit_byte_count_never(reader) == reader

commit_byte_count(reader) == [reader EXCEPT !.byte_count = reader.uncommitted_byte_count]

count_bytes(reader, count) == [reader EXCEPT !.uncommitted_byte_count = @ + count]

(***************************************************************************)
(* command_parser.rs: CommandParser::parse, the commands the model sends.  *)
(***************************************************************************)
Upper == <<"A", "B", "C", "D", "E", "F", "G", "H", "I", "J", "K", "L", "M",
           "N", "O", "P", "Q", "R", "S", "T", "U", "V", "W", "X", "Y", "Z">>
Lower == <<"a", "b", "c", "d", "e", "f", "g", "h", "i", "j", "k", "l", "m",
           "n", "o", "p", "q", "r", "s", "t", "u", "v", "w", "x", "y", "z">>

to_lowercase(s) ==
    [i \in 1..Len(s) |->
        IF \E j \in 1..26 : Upper[j] = s[i]
        THEN Lower[CHOOSE j \in 1..26 : Upper[j] = s[i]]
        ELSE s[i]]

\* RespValue::as_string
as_string(v) == IF v.tag \in {"BulkString", "SimpleString"} THEN Some(v.s) ELSE None

RECURSIVE as_strings(_)
as_strings(items) ==
    IF items = <<>> THEN <<>> ELSE <<as_string(Head(items))>> \o as_strings(Tail(items))

all_some(options) == \A i \in 1..Len(options) : options[i].some

values_of(options) == [i \in 1..Len(options) |-> options[i].v]

\* u128::from_str_radix(s, 10)
u128_from_str_radix(s) == usize_from_str_radix(s)

\* The arm of SET.  items[1] and items[2] are indexed before the length is
\* examined: a shorter array panics.
parse_set(items) ==
    IF Len(items) < 3 THEN Err("panic")
    ELSE LET key == as_string(items[2])
             value == as_string(items[3])
         IN  IF ~key.some THEN Err("ERR wrong number of arguments for 'set' command")
             ELSE IF ~value.some THEN Err("ERR wrong value for 'set' command")
             ELSE IF Len(items) = 3 THEN Ok(Set(key.v, value.v, None))
             ELSE IF Len(items) = 5
             THEN LET expiry_kind == as_string(items[4])
                      expiry_value_str == as_string(items[5])
                  IN  IF ~expiry_kind.some
                      THEN Err("ERR wrong expiry type for 'set' command")
                      ELSE IF ~expiry_value_str.some
                      THEN Err("ERR wrong expiry value for 'set' command")
                      ELSE LET expiry_value == u128_from_str_radix(expiry_value_str.v)
                           IN  IF ~expiry_value.ok
                               THEN Err("ERR wrong expiry value for 'set' command")
                               ELSE IF to_lowercase(expiry_kind.v) = <<"e", "x">>
                               THEN Ok(Set(key.v, value.v, Some(expiry_value.v * 1000)))
                               ELSE IF to_lowercase(expiry_kind.v) = <<"p", "x">>
                               THEN Ok(Set(key.v, value.v, Some(expiry_value.v)))
                               ELSE Err("ERR wrong expiry type for 'set' command")
             ELSE Err("ERR wrong number of arguments for 'set' command")

\* format!("ERR wrong number of arguments for '{}' command", command_name)
wrong_number_of_arguments(command_name) ==
    "ERR wrong number of arguments for '" \o command_name \o "' command"

\* get_strings_exact: exactly n items, each a bulk or simple string.
get_strings_exact(values, n, command_name) ==
    IF Len(values) # n THEN Err(wrong_number_of_arguments(command_name))
    ELSE IF ~all_some(as_strings(values))
    THEN Err("ERR wrong value type for '" \o command_name \o "' command")
    ELSE Ok(values_of(as_strings(values)))

\* to_number!(usize, v, name)
to_number(v, command_name) ==
    LET n == usize_from_str_radix(v)
    IN  IF n.ok THEN n ELSE Err("ERR wrong value for '" \o command_name \o "' command")

\* The arms of RPUSH and LPUSH.
parse_push(items, command_name) ==
    IF Len(items) <= 2 THEN Err(wrong_number_of_arguments(command_name))
    ELSE LET key == as_string(items[2])
             values == as_strings(SubSeq(items, 3, Len(items)))
         IN  IF ~key.some THEN Err("ERR wrong key for '" \o command_name \o "' command")
             ELSE IF ~all_some(values)
             THEN Err("ERR wrong value for '" \o command_name \o "' command")
             ELSE IF command_name = "rpush" THEN Ok(Rpush(key.v, values_of(values)))
             ELSE Ok(Lpush(key.v, values_of(values)))

\* The arms of LPOP and RPOP: two items pop one element, three items pop n.
parse_pop(items, command_name) ==
    IF Len(items) = 2
    THEN LET str_items == get_strings_exact(items, 2, command_name)
         IN  IF ~str_items.ok THEN str_items
             ELSE IF command_name = "lpop" THEN Ok(Lpop(str_items.v[2]))
             ELSE Ok(Rpop(str_items.v[2]))
    ELSE IF Len(items) = 3
    THEN LET str_items == get_strings_exact(items, 3, command_name)
             n == to_number(str_items.v[3], command_name)
         IN  IF ~str_items.ok THEN str_items
             ELSE IF ~n.ok THEN n
             ELSE IF command_name = "lpop" THEN Ok(Lpopn(str_items.v[2], n.v))
             ELSE Ok(Rpopn(str_items.v[2], n.v))
    ELSE Err(wrong_number_of_arguments(command_name))

\* str::split(sep): the parts between the separators.
RECURSIVE split(_, _)
split(s, sep) ==
    LET at == {i \in 1..Len(s) : s[i] = sep}
    IN  IF at = {} THEN <<s>>
        ELSE LET i == CHOOSE i \in at : \A j \in at : i <= j
             IN  <<SubSeq(s, 1, i - 1)>> \o split(SubSeq(s, i + 1, Len(s)), sep)

stream_entry_id_from_raw(raw) ==
    IF raw = <<"*">> THEN Ok(Wildcard)
    ELSE LET parts == split(raw, "-")
         IN  IF Len(parts) # 2 THEN Err("ERR invalid stream id")
             ELSE LET ms == u128_from_str_radix(parts[1])
                      seq == usize_from_str_radix(parts[2])
                  IN  IF ~ms.ok THEN Err("ERR invalid ms in stream entry id")
                      ELSE IF parts[2] = <<"*">> THEN Ok(MsOnly(ms.v))
                      ELSE IF ~seq.ok THEN Err("ERR invalid seq in stream entry id")
                      ELSE Ok(Full(ms.v, seq.v))

\* The arm of XADD: a key, an id and pairs of field and value.
parse_xadd(items) ==
    IF Len(items) < 5 THEN Err(wrong_number_of_arguments("xadd"))
    ELSE LET str_items == get_strings_exact(items, Len(items), "xadd")
             rest == SubSeq(str_items.v, 4, Len(items))
             id == stream_entry_id_from_raw(str_items.v[3])
         IN  IF ~str_items.ok THEN str_items
             ELSE IF Len(rest) % 2 # 0 THEN Err(wrong_number_of_arguments("xadd"))
             ELSE IF ~id.ok THEN id
             ELSE Ok(Xadd(str_items.v[2], id.v,
                          [i \in 1..(Len(rest) \div 2) |-> <<rest[2 * i - 1], rest[2 * i]>>]))

\* The arms of GET, LLEN and TYPE: the name and a key.
parse_key(items, command_name) ==
    LET str_items == get_strings_exact(items, 2, command_name)
    IN  IF ~str_items.ok THEN str_items
        ELSE IF command_name = "get" THEN Ok(Get(str_items.v[2]))
        ELSE IF command_name = "llen" THEN Ok(Llen(str_items.v[2]))
        ELSE Ok(Type(str_items.v[2]))

\* The arm of REPLCONF: the arguments after the name, as they are.
parse_replconf(items) ==
    LET args == as_strings(Tail(items))
    IN  IF all_some(args) THEN Ok(Replconf(values_of(args)))
        ELSE Err("ERR wrong value type for 'replconf' command")

parse(input) ==
    IF input.tag = "Array"
    THEN LET items == input.list
         IN  IF items = <<>> THEN Err("ERR missing command")
             ELSE LET name == as_string(items[1])
                  IN  IF ~name.some THEN Err("ERR wrong command type")
                      ELSE IF to_lowercase(name.v) = <<"p", "i", "n", "g">>
                      THEN IF Len(items) # 1
                           THEN Err("ERR wrong number of arguments for 'ping' command")
                           ELSE Ok(Ping)
                      ELSE IF to_lowercase(name.v) = <<"g", "e", "t">>
                      THEN parse_key(items, "get")
                      ELSE IF to_lowercase(name.v) = <<"s", "e", "t">> THEN parse_set(items)
                      ELSE IF to_lowercase(name.v) = <<"r", "p", "u", "s", "h">>
                      THEN parse_push(items, "rpush")
                      ELSE IF to_lowercase(name.v) = <<"l", "p", "u", "s", "h">>
                      THEN parse_push(items, "lpush")
                      ELSE IF to_lowercase(name.v) = <<"l", "l", "e", "n">>
                      THEN parse_key(items, "llen")
                      ELSE IF to_lowercase(name.v) = <<"l", "p", "o", "p">>
                      THEN parse_pop(items, "lpop")
                      ELSE IF to_lowercase(name.v) = <<"r", "p", "o", "p">>
                      THEN parse_pop(items, "rpop")
                      ELSE IF to_lowercase(name.v) = <<"t", "y", "p", "e">>
                      THEN parse_key(items, "type")
                      ELSE IF to_lowercase(name.v) = <<"x", "a", "d", "d">>
                      THEN parse_xadd(items)
                      ELSE IF to_lowercase(name.v) = <<"r", "e", "p", "l", "c", "o", "n", "f">>
                      THEN parse_replconf(items)
                      ELSE Err("ERR unknown command")
    ELSE Err("ERR unknown command 'asdf'")

(***************************************************************************)
(* database.rs: the typed store.  A Database is a function from keys to    *)
(* entries; every operation yields the new store and its Result.           *)
(***************************************************************************)
WRONGTYPE == "WRONGTYPE Operation against a key holding the wrong kind of value"
ERR_NOT_INTEGER == "ERR value is not an integer or out of range"
ERR_XADD_ZERO == "ERR The ID specified in XADD must be greater than 0-0"
ERR_XADD_SMALLER ==
    "ERR The ID specified in XADD is equal or smaller than the target stream top item"
Unit == "()"

NoEntry == [t |-> "none"]
ValueEntry(value, expiry_timestamp_ms) ==
    [t |-> "string", value |-> value, expiry_timestamp_ms |-> expiry_timestamp_ms]
ArrayEntry(array) == [t |-> "list", array |-> array]
StreamEntry(stream) == [t |-> "stream", stream |-> stream]
StreamValue(id, kvpairs) == [id |-> id, kvpairs |-> kvpairs]

DbResult(db, res) == [db |-> db, res |-> res]

contains_key(db, key) == db[key].t # "none"

assert_array(db, key) ==
    IF contains_key(db, key) /\ db[key].t # "list" THEN Err(WRONGTYPE) ELSE Ok(Unit)

assert_single_value(db, key) ==
    IF contains_key(db, key) /\ db[key].t # "string" THEN Err(WRONGTYPE) ELSE Ok(Unit)

assert_stream(db, key) ==
    IF contains_key(db, key) /\ db[key].t # "stream" THEN Err(WRONGTYPE) ELSE Ok(Unit)

\* An expiry that keeps the time to live instead of the instant.
expiry_timestamp_relative(expiry_ms, now_ms) ==
    IF expiry_ms.some THEN Some(expiry_ms.v) ELSE None

\* expiry_ms.map(|ttl| now_ms + ttl)
expiry_timestamp(expiry_ms, now_ms) ==
    IF expiry_ms.some THEN Some(now_ms + expiry_ms.v) ELSE None

\* A set that overwrites whatever the key holds.
set_any_type(db, key, value, expiry_ms, now_ms) ==
    DbResult([db EXCEPT ![key] = ValueEntry(value, expiry_timestamp(expiry_ms, now_ms))],
             Ok(Unit))

set(db, key, value, expiry_ms, now_ms) ==
    IF ~assert_single_value(db, key).ok THEN DbResult(db, assert_single_value(db, key))
    ELSE DbResult([db EXCEPT ![key] = ValueEntry(value, expiry_timestamp(expiry_ms, now_ms))],
                  Ok(Unit))

\* The expiry test of get: the value is live while expiry >= now.
is_live(expiry_timestamp_ms, now_ms) ==
    ~expiry_timestamp_ms.some \/ expiry_timestamp_ms.v >= now_ms

get(db, key, now_ms) ==
    IF ~assert_single_value(db, key).ok THEN assert_single_value(db, key)
    ELSE IF ~contains_key(db, key) THEN Ok(None)
    ELSE IF is_live(db[key].expiry_timestamp_ms, now_ms) THEN Ok(Some(db[key].value))
    ELSE Ok(None)

RECURSIVE Reverse(_)
Reverse(s) == IF s = <<>> THEN <<>> ELSE Reverse(Tail(s)) \o <<Head(s)>>

array_of(db, key) == IF contains_key(db, key) THEN db[key].array ELSE <<>>

push_to_array(db, key, values) ==
    IF ~assert_array(db, key).ok THEN DbResult(db, assert_array(db, key))
    ELSE LET array == array_of(db, key) \o values
         IN  DbResult([db EXCEPT ![key] = ArrayEntry(array)], Ok(Len(array)))

insert_to_array(db, key, values) ==
    IF ~assert_array(db, key).ok THEN DbResult(db, assert_array(db, key))
    ELSE LET array == Reverse(values) \o array_of(db, key)
         IN  DbResult([db EXCEPT ![key] = ArrayEntry(array)], Ok(Len(array)))

Min(a, b) == IF a < b THEN a ELSE b
Max(a, b) == IF a > b THEN a ELSE b

get_list_lrange(db, key, start, end) ==
    IF ~assert_array(db, key).ok THEN assert_array(db, key)
    ELSE IF ~contains_key(db, key) THEN Ok(<<>>)
    ELSE LET array == db[key].array
             s == IF start < 0 THEN Max(start + Len(array), 0) ELSE start
             e == IF end < 0 THEN Max(end + Len(array), 0) ELSE end
         IN  Ok(SubSeq(array, s + 1, Min(e + 1, Len(array))))

list_length(db, key) ==
    IF ~assert_array(db, key).ok THEN assert_array(db, key)
    ELSE IF ~contains_key(db, key) THEN Ok(0)
    ELSE Ok(Len(db[key].array))

\* A pop from the front that leaves the element in the list.
list_pop_one_front_peek(db, key) ==
    IF ~assert_array(db, key).ok THEN DbResult(db, assert_array(db, key))
    ELSE IF ~contains_key(db, key) THEN DbResult(db, Ok(None))
    ELSE IF db[key].array = <<>> THEN DbResult(db, Ok(None))
    ELSE DbResult(db, Ok(Some(Head(db[key].array))))

list_pop_one_front(db, key) ==
    IF ~assert_array(db, key).ok THEN DbResult(db, assert_array(db, key))
    ELSE IF ~contains_key(db, key) THEN DbResult(db, Ok(None))
    ELSE IF db[key].array = <<>> THEN DbResult(db, Ok(None))
    ELSE DbResult([db EXCEPT ![key] = ArrayEntry(Tail(db[key].array))],
                  Ok(Some(Head(db[key].array))))

list_pop_one_back(db, key) ==
    IF ~assert_array(db, key).ok THEN DbResult(db, assert_array(db, key))
    ELSE IF ~contains_key(db, key) THEN DbResult(db, Ok(None))
    ELSE IF db[key].array = <<>> THEN DbResult(db, Ok(None))
    ELSE LET array == db[key].array
         IN  DbResult([db EXCEPT ![key] = ArrayEntry(SubSeq(array, 1, Len(array) - 1))],
                      Ok(Some(array[Len(array)])))

list_pop_multi_front(db, key, n) ==
    IF ~assert_array(db, key).ok THEN DbResult(db, assert_array(db, key))
    ELSE IF ~contains_key(db, key) THEN DbResult(db, Ok(None))
    ELSE IF db[key].array = <<>> THEN DbResult(db, Ok(None))
    ELSE LET array == db[key].array
             m == Min(n, Len(array))
         IN  DbResult([db EXCEPT ![key] = ArrayEntry(SubSeq(array, m + 1, Len(array)))],
                      Ok(Some(SubSeq(array, 1, m))))

list_pop_multi_back(db, key, n) ==
    IF ~assert_array(db, key).ok THEN DbResult(db, assert_array(db, key))
    ELSE IF ~contains_key(db, key) THEN DbResult(db, Ok(None))
    ELSE IF db[key].array = <<>> THEN DbResult(db, Ok(None))
    ELSE LET array == db[key].array
             m == Min(n, Len(array))
         IN  DbResult([db EXCEPT ![key] = ArrayEntry(SubSeq(array, 1, Len(array) - m))],
                      Ok(Some(Reverse(SubSeq(array, Len(array) - m + 1, Len(array))))))

get_key_type_name(db, key) == db[key].t

\* CompleteStreamEntryID::partial_cmp: by ms, then by seq.
id_less(a, b) == a[1] < b[1] \/ (a[1] = b[1] /\ a[2] < b[2])
id_leq(a, b) == a = b \/ id_less(a, b)

\* The first free sequence number for ms: the fold over the stream's entries.
RECURSIVE max_available_idx(_, _, _)
max_available_idx(stream, ms, idx) ==
    IF stream = <<>> THEN idx
    ELSE LET entry == Head(stream)
         IN  max_available_idx(Tail(stream), ms,
                 IF entry.id[1] = ms /\ entry.id[2] >= idx THEN entry.id[2] + 1 ELSE idx)

\* An id check that lets an id equal to a stored one through.
resolve_stream_entry_id_equal(id, stream, now_ms) ==
    LET ms  == CASE id.kind = "Full"     -> id.id[1]
                 [] id.kind = "MsOnly"   -> id.ms
                 [] id.kind = "Wildcard" -> now_ms
        seq == IF id.kind = "Full" THEN id.id[2]
               ELSE max_available_idx(stream, ms, IF ms = 0 THEN 1 ELSE 0)
    IN  IF ms = 0 /\ seq = 0 THEN Err(ERR_XADD_ZERO)
        ELSE IF \E i \in 1..Len(stream) :
                    \/ stream[i].id[1] > ms
                    \/ (stream[i].id[1] = ms /\ seq < stream[i].id[2])
             THEN Err(ERR_XADD_SMALLER)
             ELSE Ok(<<ms, seq>>)

resolve_stream_entry_id(id, stream, now_ms) ==
    LET ms  == CASE id.kind = "Full"     -> id.id[1]
                 [] id.kind = "MsOnly"   -> id.ms
                 [] id.kind = "Wildcard" -> now_ms
        seq == IF id.kind = "Full" THEN id.id[2]
               ELSE max_available_idx(stream, ms, IF ms = 0 THEN 1 ELSE 0)
    IN  IF ms = 0 /\ seq = 0 THEN Err(ERR_XADD_ZERO)
        ELSE IF \E i \in 1..Len(stream) :
                    \/ stream[i].id[1] > ms
                    \/ (stream[i].id[1] = ms /\ seq <= stream[i].id[2])
             THEN Err(ERR_XADD_SMALLER)
             ELSE Ok(<<ms, seq>>)

\* self.dict.entry(key).or_insert(Entry::Stream(Vec::new()))
or_insert_stream(db, key) ==
    IF contains_key(db, key) THEN db ELSE [db EXCEPT ![key] = StreamEntry(<<>>)]

stream_push(db, key, id, kvpairs, now_ms) ==
    IF ~assert_stream(db, key).ok THEN DbResult(db, assert_stream(db, key))
    ELSE LET db1 == or_insert_stream(db, key)
             r   == resolve_stream_entry_id(id, db1[key].stream, now_ms)
         IN  IF ~r.ok THEN DbResult(db1, r)
             ELSE DbResult([db1 EXCEPT ![key] =
                               StreamEntry(Append(db1[key].stream, StreamValue(r.v, kvpairs)))],
                           r)

RECURSIVE take_in_range(_, _, _, _)
take_in_range(stream, start, end, count) ==
    IF stream = <<>> \/ count = 0 THEN <<>>
    ELSE IF id_leq(start, Head(stream).id) /\ id_leq(Head(stream).id, end)
         THEN <<Head(stream)>> \o take_in_range(Tail(stream), start, end, count - 1)
         ELSE take_in_range(Tail(stream), start, end, count)

stream_get_range(db, key, start, end, count) ==
    IF ~assert_stream(db, key).ok THEN assert_stream(db, key)
    ELSE IF ~contains_key(db, key) THEN Ok(<<>>)
    ELSE Ok(take_in_range(db[key].stream, start, end, count))

\* self.dict.entry(key).or_insert(Entry::Value("0", None))
or_insert_zero(db, key) ==
    IF contains_key(db, key) THEN db ELSE [db EXCEPT ![key] = ValueEntry(<<"0">>, None)]

\* num + 1 on the i64 of the model: with overflow checks (a debug build) the
\* addition panics at i64::MAX, without them (a release build) it wraps.
incr(db, key, overflow_checks) ==
    IF ~assert_single_value(db, key).ok THEN DbResult(db, assert_single_value(db, key))
    ELSE LET db1 == or_insert_zero(db, key)
             p   == i64_from_str_radix(db1[key].value)
         IN  IF ~p.ok THEN DbResult(db1, Err(ERR_NOT_INTEGER))
             ELSE IF p.v = I64_MAX /\ overflow_checks THEN DbResult(db1, Err("panic"))
             ELSE LET num == IF p.v = I64_MAX THEN 0 - (I64_MAX + 1) ELSE p.v + 1
                  IN  DbResult([db1 EXCEPT ![key] =
                                    ValueEntry(to_string(num), db1[key].expiry_timestamp_ms)],
                               Ok(num))

(***************************************************************************)
(* State.                                                                  *)
(*   dict, now            the store (Database::dict) and the wall clock    *)
(*   last                 the store operation performed last and its Result*)
(*   xadd_ids, last_set   history: per key, the ids the successful XADDs   *)
(*                        returned, in order, and the SET with a TTL that  *)
(*                        wrote the key's present value                    *)
(*   conn                 per connection: the position of its task in      *)
(*                        handle_request / execute / execute_only, the     *)
(*                        command read, the command execute_only runs, the *)
(*                        rest of an EXEC's buffer, the EXEC's subvalues,  *)
(*                        the value awaiting propagation, the last reply   *)
(*   transaction_store    Engine::transaction_store: the MULTI buffers     *)
(*   tx_lock              the holder of the transaction_store mutex across *)
(*                        awaits (0 when free)                             *)
(*   stream_notify,timers Engine::stream_notify and the sleeping timer     *)
(*                        tasks blocking_pop spawned, per deadline         *)
(*   offset, write_queue  WriterRole::offset and WriterRole::write_queue   *)
(*   clients              WriterRole::clients: the follower records        *)
(*   follower             per follower connection: the position of its     *)
(*                        task in handle_replica_connection                *)
(*   waits                per WAIT call: its position in Engine::wait, the *)
(*                        offset read at its start, its deadline, its set  *)
(*                        of up to date replicas and its result            *)
(*   wr_read_client_offset_notify, wr_cmd_propagation_notify, wait_timers  *)
(*                        the two notifiers of the engine and the sleeping *)
(*                        timer tasks WAIT spawned, per deadline           *)
(*   reported             history: per follower, the offsets its record    *)
(*                        has held, and the number of frames the followers *)
(*                        sent in answer to GETACK                         *)
(*   applied, ncmds       history: the propagatable commands in the order  *)
(*                        they took the store lock, and the number of      *)
(*                        commands read so far                             *)
(*   replica              the node as a follower: the position of its task *)
(*                        in handle_replication_connection, its            *)
(*                        StreamReader, the bytes that arrived from the    *)
(*                        leader and are not read yet, the replies it      *)
(*                        wrote, and (history) the number of frames read   *)
(*   leader_frames        history: the frames the leader wrote to the      *)
(*                        follower after the snapshot                      *)
(*   peer_closed          the client connections whose client has closed   *)
(*                        its end                                          *)
(*   discarded            history: per connection, the buffer its last     *)
(*                        DISCARD removed                                  *)
(*   sock                 per connection, the bytes its client has sent    *)
(*                        that no read of the socket has taken yet         *)
(*   sent, executed       history: per connection, the commands its client *)
(*                        sent and the commands execute was called with    *)
(*   fn_arg, fn_res       the argument a function of the program is called *)
(*                        with and, once it has returned, its result       *)
(*   rdb_file, init_task  the content of the snapshot file (None: no file) *)
(*                        and the position of the task Server::run spawns  *)
(*                        for Engine::init                                 *)
(*   role_lock            the RwLock of replication_role: how many read    *)
(*                        guards each task holds, the task holding the     *)
(*                        write guard, and the tasks waiting in order      *)
(*   info_task            the position of a connection running INFO        *)
(*                        replication, and its reply                       *)
(*   replica_db,          the store of a follower of this leader and the   *)
(*   replica_applied      number of write-queue commands it has executed   *)
(***************************************************************************)
VARIABLES dict, now, last, xadd_ids, last_set,
          conn, transaction_store, tx_lock, stream_notify, timers,
          offset, write_queue, applied, ncmds,
          clients, follower, waits, wr_read_client_offset_notify,
          wr_cmd_propagation_notify, wait_timers, reported, nreplies,
          replica, leader_frames, peer_closed, discarded,
          sock, sent, executed, fn_arg, fn_res, rdb_file, init_task,
          role_lock, info_task, replica_db, replica_applied

storeVars == <<dict, now, last, xadd_ids, last_set>>
storeHistory == <<last, xadd_ids, last_set>>
engineVars == <<conn, transaction_store, tx_lock, stream_notify, timers, applied, ncmds>>
replVars == <<offset, write_queue>>
waitVars == <<clients, follower, waits, wr_read_client_offset_notify,
              wr_cmd_propagation_notify, wait_timers, reported, nreplies>>
netVars == <<replica, leader_frames, peer_closed>>
histVars == <<discarded>>
pipeVars == <<sock, sent, executed>>
fnVars == <<fn_arg, fn_res>>
startVars == <<rdb_file, init_task>>
lockVars == <<role_lock, info_task>>
mirrorVars == <<replica_db, replica_applied>>
vars == <<storeVars, engineVars, replVars, waitVars, netVars, histVars, pipeVars, fnVars,
          startVars, lockVars, mirrorVars>>

\* The client connections (request_count identifies a connection).
Conns == {1, 2}

NoCmd == [op |-> "none"]
NoReply == [tag |-> "none"]

\* A connection whose task waits for the next frame, after writing reply.
Idle(reply) ==
    [pc |-> "read", cmd |-> NoCmd, cur |-> NoCmd, pending |-> <<>>, subvalues |-> <<>>,
     value |-> NoReply, reply |-> reply, end_secs |-> None, exec_cmds |-> <<>>]

\* A connection whose task has ended with an Err or a panic: the stream is dropped.
Closed == [Idle(NoReply) EXCEPT !.pc = "closed"]

\* tokio::sync::Notify: a stored permit and the waiting tasks, oldest first.
NotifyNew == [permit |-> FALSE, waiters |-> <<>>]

\* WriterRole::new: offset 0 and an empty write queue.
WriterInit ==
    /\ offset = 0
    /\ write_queue = <<>>

\* The follower connections and the WAIT calls.
Followers == {1, 2}
Waits == {1}

\* ClientInfo::new
ClientInfo_new ==
    [offset |-> 0, offset_update |-> "Idle", last_synced_command_index |-> -1]

NoWait ==
    [pc |-> "idle", replica_count |-> 0, writer_offset |-> 0, end_ms |-> 0,
     up_to_date_replicas |-> {}, result |-> -1]

\* The engine with no follower connected and no WAIT under way, for the given
\* follower connections and WAIT calls to come.
WaitInitOf(followers, calls) ==
    /\ clients = [f \in followers |-> None]
    /\ follower = [f \in followers |-> [pc |-> "connect", sent |-> <<>>]]
    /\ waits = [w \in calls |-> NoWait]
    /\ wr_read_client_offset_notify = NotifyNew
    /\ wr_cmd_propagation_notify = NotifyNew
    /\ wait_timers = [t \in 0..(MaxTime + 1) |-> 0]
    /\ reported = [f \in followers |-> {}]
    /\ nreplies = 0

WaitInit == WaitInitOf(Followers, Waits)

\* What the leader writes during the handshake: +PONG, +OK, +OK, the
\* FULLRESYNC line and the snapshot as bulk bytes.
HandshakeReplies ==
    serialize(SimpleString(<<"P", "O", "N", "G">>))
        \o serialize(SimpleString(<<"O", "K">>)) \o serialize(SimpleString(<<"O", "K">>))
        \o serialize(SimpleString(<<"F", "U", "L", "L", "R", "E", "S", "Y", "N", "C", " ", "i", "d", " ", "0">>))
        \o <<"$", "2", "\r", "\n", "R", "D">>

\* The node as a follower, connected to its leader: its task is in
\* replica_handshake, the replies of the leader are on their way.
NetInit ==
    /\ replica = [pc |-> "handshake", reader |-> StreamReader_new, stream |-> HandshakeReplies,
                  written |-> <<>>, nread |-> 0]
    /\ leader_frames = <<>>
    /\ peer_closed = {}

\* Engine::new, and the tasks of the given connections waiting for a frame.
EngineInitOf(conns) ==
    /\ conn = [c \in conns |-> Idle(NoReply)]
    /\ transaction_store = [c \in conns |-> None]
    /\ tx_lock = 0
    /\ stream_notify = NotifyNew
    /\ timers = [t \in 0..(MaxTime + 1) |-> 0]
    /\ applied = <<>>
    /\ ncmds = 0
    /\ discarded = [c \in conns |-> None]
    /\ sock = [c \in conns |-> <<>>]
    /\ sent = [c \in conns |-> <<>>]
    /\ executed = [c \in conns |-> <<>>]

EngineInit == EngineInitOf(Conns)

(***************************************************************************)
(* The store on its own: every Database method runs to completion under    *)
(* the store lock (db.write() / db.read()), so one method call is one step.*)
(***************************************************************************)
StoreKeys == {<<"k">>}
StoreValues == {<<"x">>, to_string(I64_MAX - 1)}
StoreTtls == {None, Some(1)}
StoreIds == {Wildcard} \cup {MsOnly(ms) : ms \in 0..1}
                \cup {Full(ms, seq) : ms \in 0..1, seq \in 0..1}
KvPairs == <<<<<<"f">>, <<"v">>>>>>

NoOp == [op |-> "none"]
LastOp(op, key, res) == [op |-> op, key |-> key, res |-> res]

EmptyDb == [k \in StoreKeys |-> NoEntry]

\* Database::new and the clock at its start.
StoreInit ==
    /\ dict = EmptyDb
    /\ now = 0
    /\ last = NoOp
    /\ xadd_ids = [k \in StoreKeys |-> <<>>]
    /\ last_set = [k \in StoreKeys |-> None]

\* No function has been called; no snapshot file, and Engine::init has returned.
FnInit == fn_arg = None /\ fn_res = None

StartInit == rdb_file = None /\ init_task = "done"

\* Nobody holds or awaits the lock of replication_role; no INFO is running.
NoTask == [kind |-> "none", id |-> 0]
LockInit ==
    /\ role_lock = [readers |-> <<>>, writer |-> NoTask, queue |-> <<>>]
    /\ info_task = [pc |-> "idle", reply |-> None]

\* The follower's store is Database::new(); it has executed nothing.
MirrorInit ==
    /\ replica_db = [k \in StoreKeys |-> NoEntry]
    /\ replica_applied = 0

\* The state after construction, with a call of a function on one of inputs.
InitOf(inputs) ==
    /\ StoreInit
    /\ EngineInit
    /\ WriterInit
    /\ WaitInit
    /\ NetInit
    /\ fn_arg \in inputs
    /\ fn_res = None
    /\ StartInit /\ LockInit /\ MirrorInit

Init ==
    /\ StoreInit
    /\ EngineInit
    /\ WriterInit
    /\ WaitInit
    /\ NetInit
    /\ FnInit /\ StartInit /\ LockInit /\ MirrorInit

\* A write other than SET with a TTL ends the history of the key's last SET.
Overwritten(key, r) ==
    IF r.res.ok THEN [last_set EXCEPT ![key] = None] ELSE last_set

DbSet(key, value, expiry_ms) ==
    LET r == set(dict, key, value, expiry_ms, now)
    IN  /\ dict' = r.db
        /\ last' = LastOp("set", key, r.res)
        /\ last_set' = IF r.res.ok /\ expiry_ms.some
                       THEN [last_set EXCEPT ![key] =
                                Some([value |-> value, expires_at |-> now + expiry_ms.v])]
                       ELSE Overwritten(key, r)
        /\ UNCHANGED <<now, xadd_ids, engineVars, netVars, histVars, fnVars, startVars, lockVars, mirrorVars, pipeVars, replVars, waitVars>>

DbGet(key) ==
    /\ last' = LastOp("get", key, get(dict, key, now))
    /\ UNCHANGED <<dict, now, xadd_ids, last_set, engineVars, netVars, histVars, fnVars, startVars, lockVars, mirrorVars, pipeVars, replVars, waitVars>>

DbIncr(key, overflow_checks) ==
    LET r == incr(dict, key, overflow_checks)
    IN  /\ dict' = r.db
        /\ last' = LastOp("incr", key, r.res)
        /\ last_set' = Overwritten(key, r)
        /\ UNCHANGED <<now, xadd_ids, engineVars, netVars, histVars, fnVars, startVars, lockVars, mirrorVars, pipeVars, replVars, waitVars>>

DbPush(key, values, front) ==
    LET r == IF front THEN insert_to_array(dict, key, values)
                      ELSE push_to_array(dict, key, values)
    IN  /\ dict[key].t = "list" => Len(dict[key].array) + Len(values) <= MaxList
        /\ dict' = r.db
        /\ last' = LastOp("push", key, r.res)
        /\ UNCHANGED <<now, xadd_ids, last_set, engineVars, netVars, histVars, fnVars, startVars, lockVars, mirrorVars, pipeVars, replVars, waitVars>>

DbPopOne(key, front) ==
    LET r == IF front THEN list_pop_one_front(dict, key) ELSE list_pop_one_back(dict, key)
    IN  /\ dict' = r.db
        /\ last' = LastOp("pop", key, r.res)
        /\ UNCHANGED <<now, xadd_ids, last_set, engineVars, netVars, histVars, fnVars, startVars, lockVars, mirrorVars, pipeVars, replVars, waitVars>>

DbPopMulti(key, n, front) ==
    LET r == IF front THEN list_pop_multi_front(dict, key, n)
                      ELSE list_pop_multi_back(dict, key, n)
    IN  /\ dict' = r.db
        /\ last' = LastOp("popn", key, r.res)
        /\ UNCHANGED <<now, xadd_ids, last_set, engineVars, netVars, histVars, fnVars, startVars, lockVars, mirrorVars, pipeVars, replVars, waitVars>>

DbListRead(key) ==
    /\ \/ last' = LastOp("lrange", key, get_list_lrange(dict, key, 0, -1))
       \/ last' = LastOp("llen", key, list_length(dict, key))
    /\ UNCHANGED <<dict, now, xadd_ids, last_set, engineVars, netVars, histVars, fnVars, startVars, lockVars, mirrorVars, pipeVars, replVars, waitVars>>

DbStreamPush(key, id) ==
    LET r == stream_push(dict, key, id, KvPairs, now)
    IN  /\ r.res.ok => Len(r.db[key].stream) <= MaxStream
        /\ dict' = r.db
        /\ last' = LastOp("xadd", key, r.res)
        /\ xadd_ids' = IF r.res.ok THEN [xadd_ids EXCEPT ![key] = Append(@, r.res.v)]
                       ELSE xadd_ids
        /\ UNCHANGED <<now, last_set, engineVars, netVars, histVars, fnVars, startVars, lockVars, mirrorVars, pipeVars, replVars, waitVars>>

DbStreamRange(key) ==
    /\ last' = LastOp("xrange", key, stream_get_range(dict, key, <<0, 1>>, <<1, 1>>, 1))
    /\ UNCHANGED <<dict, now, xadd_ids, last_set, engineVars, netVars, histVars, fnVars, startVars, lockVars, mirrorVars, pipeVars, replVars, waitVars>>

Tick ==
    /\ now < MaxTime
    /\ now' = now + 1
    /\ last' = NoOp
    /\ UNCHANGED <<dict, xadd_ids, last_set, engineVars, netVars, histVars, fnVars, startVars, lockVars, mirrorVars, pipeVars, replVars, waitVars>>

StoreNext ==
    \/ \E key \in StoreKeys, value \in StoreValues, expiry_ms \in StoreTtls :
           DbSet(key, value, expiry_ms)
    \/ \E key \in StoreKeys : DbGet(key)
    \/ \E key \in StoreKeys, overflow_checks \in BOOLEAN : DbIncr(key, overflow_checks)
    \/ \E key \in StoreKeys, value \in {<<"x">>, <<"y">>}, front \in BOOLEAN : DbPush(key, <<value>>, front)
    \/ \E key \in StoreKeys, front \in BOOLEAN : DbPopOne(key, front)
    \/ \E key \in StoreKeys, n \in 0..1, front \in BOOLEAN : DbPopMulti(key, n, front)
    \/ \E key \in StoreKeys : DbListRead(key)
    \/ \E key \in StoreKeys, id \in StoreIds : DbStreamPush(key, id)
    \/ \E key \in StoreKeys : DbStreamRange(key)
    \/ Tick

SpecStore == Init /\ [][StoreNext]_vars

(***************************************************************************)
(* Claims about the store (checked under SpecStore).                       *)
(***************************************************************************)
\* The type of value each store operation works on.
OpType(op) ==
    CASE op \in {"set", "get", "incr"}                    -> "string"
      [] op \in {"push", "pop", "popn", "lrange", "llen"} -> "list"
      [] op \in {"xadd", "xrange"}                        -> "stream"

IsWrongType(res) == ~res.ok /\ res.e = WRONGTYPE

C5_ErrorsKeepStore ==
    [][(last'.op # "none" /\ ~last'.res.ok) => dict' = dict]_vars

StrictlyIncreasing(ids) ==
    \A i, j \in 1..Len(ids) : i < j => id_less(ids[i], ids[j])

RECURSIVE ids_of(_)
ids_of(stream) ==
    IF stream = <<>> THEN <<>> ELSE <<Head(stream).id>> \o ids_of(Tail(stream))

\* C6: the entries of every stream are in strictly increasing (ms, seq) order,
\* 0-0 is never stored, and the ids the successful XADDs returned for a stream
\* are strictly increasing.
C6_StreamMonotone ==
    \A k \in StoreKeys :
        /\ dict[k].t = "stream" =>
              /\ StrictlyIncreasing(ids_of(dict[k].stream))
              /\ \A i \in 1..Len(dict[k].stream) : dict[k].stream[i].id # <<0, 0>>
        /\ StrictlyIncreasing(xadd_ids[k])

C6_Witness ==
    \E k \in StoreKeys :
        /\ Len(xadd_ids[k]) = 2
        /\ xadd_ids[k][1][1] = xadd_ids[k][2][1]
        /\ last.op = "xadd" /\ ~last.res.ok /\ last.res.e = ERR_XADD_SMALLER

\* C7: after SET k v with a TTL (and no later write of k), GET k returns v at
\* every time before the expiry instant, null at every time after it, and no
\* GET modifies the store.
C7_TtlLazyExpiry ==
    /\ [](\A k \in StoreKeys :
            (last.op = "get" /\ last.key = k /\ last_set[k].some) =>
                /\ now < last_set[k].v.expires_at
                      => (last.res.ok /\ last.res.v = Some(last_set[k].v.value))
                /\ now > last_set[k].v.expires_at
                      => (last.res.ok /\ last.res.v = None))
    /\ [][last'.op = "get" => dict' = dict]_vars

C7_Witness ==
    \E k \in StoreKeys :
        /\ last.op = "get" /\ last.key = k /\ last_set[k].some
        /\ now > last_set[k].v.expires_at
        /\ last.res.v = None
        /\ dict[k].t = "string"

\* Engine::pop and Engine::pop_multi: the reply made of the result of the store.
PopReply(op, res) ==
    IF ~res.ok THEN SimpleError(res.e)
    ELSE IF ~res.v.some THEN NullBulkString
    ELSE IF op = "pop" THEN BulkString(res.v.v)
    ELSE Array(bulk_strings(res.v.v))

\* C24: a pop on a missing key replies null, with and without a count; a pop
\* with a count on a key that holds an empty list replies the empty array.
C24_PopReplies ==
    [][\A k \in StoreKeys :
          (last'.op \in {"pop", "popn"} /\ last'.key = k)
          => /\ dict[k].t = "none" => PopReply(last'.op, last'.res) = NullBulkString
             /\ (last'.op = "popn" /\ dict[k].t = "list" /\ dict[k].array = <<>>)
                   => PopReply(last'.op, last'.res) = Array(<<>>)]_vars

\* C25: INCR on a missing key stores and returns 1; on a key that holds the
\* decimal i64 v below i64::MAX it stores and returns v + 1; on a value that
\* is no integer and on i64::MAX it returns 'ERR value is not an integer or
\* out of range' and leaves the store as it was.
C25_Incr ==
    [][\A k \in StoreKeys :
          (last'.op = "incr" /\ last'.key = k /\ dict[k].t \in {"none", "string"})
          => LET v == IF dict[k].t = "none" THEN Ok(0)
                      ELSE i64_from_str_radix(dict[k].value)
             IN  IF v.ok /\ v.v < I64_MAX
                 THEN /\ last'.res = Ok(v.v + 1)
                      /\ dict'[k].t = "string" /\ dict'[k].value = to_string(v.v + 1)
                 ELSE /\ ~last'.res.ok /\ last'.res.e = ERR_NOT_INTEGER
                      /\ dict' = dict]_vars

(***************************************************************************)
(* engine.rs: the command engine on the leader.  Each connection is a task *)
(* (server.rs handle_request); a step of a task is the code between two    *)
(* awaits that touch shared state: one lock acquisition with the work done *)
(* under that lock.  Reading a frame is local to the connection and is     *)
(* part of the step that first touches shared state.                       *)
(***************************************************************************)
EngKey == <<"k">>
EngCmds ==
    {Set(EngKey, to_string(I64_MAX - 1), None), Incr(EngKey), Rpush(EngKey, <<<<"x">>>>),
     Blpop(<<EngKey>>, 1), Multi, Exec, Discard}

is_transaction(store, request_count) == store[request_count].some

\* A dispatch that never takes the queueing branch.
queues_nothing(command, in_transaction) == FALSE

\* The condition of the queueing branch of execute.
queues(command, in_transaction) ==
    ~is_exec(command) /\ ~is_discard(command) /\ in_transaction

\* An offset that counts commands instead of bytes.
push_write_command_count(writer, command) ==
    [offset |-> writer.offset + 1, write_queue |-> Append(writer.write_queue, command)]

push_write_command(writer, command) ==
    [offset |-> writer.offset + Len(serialize(into_resp(command))),
     write_queue |-> Append(writer.write_queue, command)]

\* Notify::notify_one: wakes the oldest waiter, or stores a permit.
notify_one(notify) ==
    IF notify.waiters # <<>> THEN [notify EXCEPT !.waiters = Tail(@)]
    ELSE [notify EXCEPT !.permit = TRUE]

woken_by_one(notify) == IF notify.waiters # <<>> THEN {Head(notify.waiters)} ELSE {}

\* Notify::notify_waiters: wakes every waiter, stores no permit.
notify_waiters(notify) == [notify EXCEPT !.waiters = <<>>]

woken_by_all(notify) == {notify.waiters[i] : i \in 1..Len(notify.waiters)}

\* The woken tasks go round the loop of blocking_pop again.
Wake(cs, woken) ==
    [x \in DOMAIN cs |-> IF x \in woken THEN [cs[x] EXCEPT !.pc = "run"] ELSE cs[x]]

\* The connection runs the loop of EXEC (cmd is EXEC, cur a command of its buffer).
InExec(cn) == is_exec(cn.cmd) /\ ~is_exec(cn.cur)

\* The connection after execute_only has produced value for cur: inside EXEC the
\* value joins subvalues and the loop goes on; the last one completes the Array
\* reply.  Outside EXEC the value is the reply.
Finished(cn, value) ==
    IF InExec(cn)
    THEN IF cn.pending = <<>> THEN Idle(Array(Append(cn.subvalues, value)))
         ELSE [cn EXCEPT !.pc = "run", !.cur = Head(cn.pending), !.pending = Tail(cn.pending),
                         !.subvalues = Append(@, value), !.value = NoReply,
                         !.end_secs = None]
    ELSE Idle(value)

\* The transaction_store guard of EXEC is dropped when its loop ends.
Released(cn, lock) == IF InExec(cn) /\ cn.pending = <<>> THEN 0 ELSE lock

\* The guard is dropped as well when the task ends with an Err or unwinds.
Dropped(c, lock) == IF lock = c THEN 0 ELSE lock

StoreOps ==
    {"Set", "Get", "Incr", "Rpush", "Lpush", "Lpop", "Rpop", "Lpopn", "Rpopn", "Llen", "Type",
     "Xadd"}

\* The arms of execute_only that run one Database method under the store lock:
\* the new store, the value of the arm, whether the arm panicked and whether it
\* called stream_notify.notify_one().
run_store(db, command, now_ms, overflow_checks) ==
    CASE command.op = "Set" ->
            LET r == set(db, command.key, command.value, command.expiry, now_ms)
            IN  [db |-> r.db, panic |-> FALSE, notify |-> FALSE,
                 value |-> IF r.res.ok THEN SimpleString("OK") ELSE SimpleError(r.res.e)]
      [] command.op = "Get" ->
            LET r == get(db, command.key, now_ms)
            IN  [db |-> db, panic |-> FALSE, notify |-> FALSE,
                 value |-> IF ~r.ok THEN SimpleError(r.e)
                           ELSE IF r.v.some THEN BulkString(r.v.v) ELSE NullBulkString]
      [] command.op = "Incr" ->
            LET r == incr(db, command.key, overflow_checks)
            IN  [db |-> r.db, panic |-> ~r.res.ok /\ r.res.e = "panic", notify |-> FALSE,
                 value |-> IF r.res.ok THEN Integer(r.res.v) ELSE SimpleError(r.res.e)]
      [] command.op \in {"Rpush", "Lpush"} ->
            LET r == IF command.op = "Rpush"
                     THEN push_to_array(db, command.key, command.values)
                     ELSE insert_to_array(db, command.key, command.values)
            IN  [db |-> r.db, panic |-> FALSE, notify |-> r.res.ok,
                 value |-> IF r.res.ok THEN Integer(r.res.v) ELSE SimpleError(r.res.e)]
      [] command.op \in {"Lpop", "Rpop"} ->
            LET r == IF command.op = "Lpop" THEN list_pop_one_front(db, command.key)
                     ELSE list_pop_one_back(db, command.key)
            IN  [db |-> r.db, panic |-> FALSE, notify |-> FALSE,
                 value |-> IF ~r.res.ok THEN SimpleError(r.res.e)
                           ELSE IF r.res.v.some THEN BulkString(r.res.v.v)
                           ELSE NullBulkString]
      [] command.op \in {"Lpopn", "Rpopn"} ->
            LET r == IF command.op = "Lpopn" THEN list_pop_multi_front(db, command.key, command.n)
                     ELSE list_pop_multi_back(db, command.key, command.n)
            IN  [db |-> r.db, panic |-> FALSE, notify |-> FALSE,
                 value |-> IF ~r.res.ok THEN SimpleError(r.res.e)
                           ELSE IF r.res.v.some THEN Array(bulk_strings(r.res.v.v))
                           ELSE NullBulkString]
      [] command.op = "Llen" ->
            LET r == list_length(db, command.key)
            IN  [db |-> db, panic |-> FALSE, notify |-> FALSE,
                 value |-> IF r.ok THEN Integer(r.v) ELSE SimpleError(r.e)]
      [] command.op = "Type" ->
            [db |-> db, panic |-> FALSE, notify |-> FALSE,
             value |-> SimpleString(get_key_type_name(db, command.key))]
      [] command.op = "Xadd" ->
            LET r == stream_push(db, command.key, command.id, command.kvpairs, now_ms)
            IN  [db |-> r.db, panic |-> FALSE, notify |-> r.res.ok,
                 value |-> IF r.res.ok
                           THEN BulkString(to_string(r.res.v[1]) \o <<"-">>
                                           \o to_string(r.res.v[2]))
                           ELSE SimpleError(r.res.e)]

\* The for loop of blocking_pop: the first key that yields an element, an Err
\* from the first key of another type that is met before, or nothing.
RECURSIVE pop_first(_, _, _)
pop_first(db, keys, front) ==
    IF keys = <<>> THEN DbResult(db, Ok(None))
    ELSE LET r == IF front THEN list_pop_one_front(db, Head(keys))
                  ELSE list_pop_one_back(db, Head(keys))
         IN  IF ~r.res.ok THEN r
             ELSE IF r.res.v.some THEN DbResult(r.db, Ok(Some(<<Head(keys), r.res.v.v>>)))
             ELSE pop_first(db, Tail(keys), front)

\* execute: a frame is read and dispatched.  Unless the command is EXEC or
\* DISCARD, is_transaction takes the transaction_store mutex.
Execute(c, command) ==
    /\ conn[c].pc = "read"
    /\ ncmds < MaxCmds
    /\ (~is_exec(command) /\ ~is_discard(command)) => tx_lock = 0
    /\ LET in_transaction == is_transaction(transaction_store, c)
       IN  /\ (queues(command, in_transaction) /\ ~is_multi(command))
                 => Len(transaction_store[c].v) < MaxTx
           /\ conn' = [conn EXCEPT ![c] =
                 IF queues(command, in_transaction)
                 THEN IF is_multi(command)
                      THEN Idle(SimpleString("ERR MULTI calls can not be nested"))
                      ELSE [Idle(NoReply) EXCEPT !.pc = "queue", !.cmd = command]
                 ELSE [Idle(NoReply) EXCEPT !.pc = "run", !.cmd = command, !.cur = command]]
    /\ ncmds' = ncmds + 1
    /\ UNCHANGED <<waitVars, dict, now, storeHistory, transaction_store, tx_lock, stream_notify,
                   timers, applied, replVars>>

\* execute, the queueing branch: the command joins the buffer, the reply is QUEUED.
Queue(c) ==
    /\ conn[c].pc = "queue"
    /\ tx_lock = 0
    /\ transaction_store' = [transaction_store EXCEPT ![c] = Some(Append(@.v, conn[c].cmd))]
    /\ conn' = [conn EXCEPT ![c] = Idle(SimpleString("QUEUED"))]
    /\ UNCHANGED <<netVars, histVars, fnVars, startVars, lockVars, mirrorVars, pipeVars, waitVars, dict, now, storeHistory, tx_lock, stream_notify, timers, applied, ncmds,
                   replVars>>

\* execute_only, Command::Multi
ExecuteMulti(c) ==
    /\ conn[c].pc = "run" /\ conn[c].cur.op = "Multi"
    /\ tx_lock = 0
    /\ transaction_store' = [transaction_store EXCEPT ![c] = Some(<<>>)]
    /\ conn' = [conn EXCEPT ![c] = Finished(conn[c], SimpleString("OK"))]
    /\ UNCHANGED <<netVars, histVars, fnVars, startVars, lockVars, mirrorVars, pipeVars, waitVars, dict, now, storeHistory, tx_lock, stream_notify, timers, applied, ncmds,
                   replVars>>

\* execute_only, Command::Exec: the mutex is taken and the buffer removed; the
\* mutex stays held while the commands of the buffer run.
ExecuteExec(c) ==
    /\ conn[c].pc = "run" /\ conn[c].cur.op = "Exec"
    /\ tx_lock = 0
    /\ transaction_store' = [transaction_store EXCEPT ![c] = None]
    /\ IF transaction_store[c].some
       THEN LET commands == transaction_store[c].v
            IN  IF commands = <<>>
                THEN /\ conn' = [conn EXCEPT ![c] = Idle(Array(<<>>))]
                     /\ UNCHANGED tx_lock
                ELSE /\ conn' = [conn EXCEPT ![c].cur = Head(commands),
                                             ![c].pending = Tail(commands),
                                             ![c].exec_cmds = commands]
                     /\ tx_lock' = c
       ELSE /\ conn' = [conn EXCEPT ![c] = Idle(SimpleError("ERR EXEC without MULTI"))]
            /\ UNCHANGED tx_lock
    /\ UNCHANGED <<netVars, histVars, fnVars, startVars, lockVars, mirrorVars, pipeVars, waitVars, dict, now, storeHistory, stream_notify, timers, applied, ncmds, replVars>>

\* A DISCARD that leaves the buffer where it is.
discard_keeps(store, request_count) == store

\* Command::Discard: transaction_store.remove(&request_count)
discard(store, request_count) == [store EXCEPT ![request_count] = None]

\* execute_only, Command::Discard
ExecuteDiscard(c) ==
    /\ conn[c].pc = "run" /\ conn[c].cur.op = "Discard"
    /\ tx_lock = 0
    /\ IF is_transaction(transaction_store, c)
       THEN /\ transaction_store' = discard(transaction_store, c)
            /\ conn' = [conn EXCEPT ![c] = Finished(conn[c], SimpleString("OK"))]
            /\ discarded' = [discarded EXCEPT ![c] = transaction_store[c]]
       ELSE /\ conn' = [conn EXCEPT ![c] =
                           Finished(conn[c], SimpleError("ERR DISCARD without MULTI"))]
            /\ UNCHANGED <<transaction_store, discarded>>
    /\ UNCHANGED <<netVars, pipeVars, fnVars, startVars, lockVars, mirrorVars, waitVars, dict, now, storeHistory, tx_lock,
                   stream_notify, timers, applied, ncmds, replVars>>

\* execute_only, the arms that run a Database method.  A propagatable command
\* goes on to the propagation block; any other is finished.
ExecuteStore(c, overflow_checks) ==
    /\ conn[c].pc = "run" /\ conn[c].cur.op \in StoreOps
    /\ LET command == conn[c].cur
           r == run_store(dict, command, now, overflow_checks)
           cn == [conn[c] EXCEPT !.value = r.value]
       IN  /\ dict' = r.db
           /\ IF r.panic
              THEN /\ conn' = [conn EXCEPT ![c] = Closed]
                   /\ tx_lock' = Dropped(c, tx_lock)
                   /\ UNCHANGED <<stream_notify, applied>>
              ELSE /\ conn' = Wake([conn EXCEPT ![c] =
                                        IF for_replication(command)
                                        THEN [cn EXCEPT !.pc = "prop"]
                                        ELSE Finished(cn, r.value)],
                                   IF r.notify THEN woken_by_one(stream_notify) ELSE {})
                   /\ tx_lock' = IF for_replication(command) THEN tx_lock
                                 ELSE Released(conn[c], tx_lock)
                   /\ stream_notify' = IF r.notify THEN notify_one(stream_notify)
                                       ELSE stream_notify
                   /\ applied' = IF for_replication(command) THEN Append(applied, command)
                                 ELSE applied
    /\ UNCHANGED <<netVars, histVars, fnVars, startVars, lockVars, mirrorVars, pipeVars, waitVars, now, storeHistory, transaction_store, timers, ncmds, replVars>>

\* execute_only, the propagation block: push_write_command under the
\* replication_role lock.  (wr_cmd_propagation_notify.notify_waiters() wakes
\* the follower tasks; no follower is connected here.)
Propagate(c) ==
    /\ conn[c].pc = "prop"
    /\ LET writer == push_write_command([offset |-> offset, write_queue |-> write_queue],
                                        conn[c].cur)
       IN  /\ offset' = writer.offset
           /\ write_queue' = writer.write_queue
    /\ conn' = [conn EXCEPT ![c] = Finished(conn[c], conn[c].value)]
    /\ tx_lock' = Released(conn[c], tx_lock)
    /\ UNCHANGED <<netVars, histVars, fnVars, startVars, lockVars, mirrorVars, pipeVars, waitVars, dict, now, storeHistory, transaction_store, stream_notify, timers,
                   applied, ncmds>>

\* execute_only after the match: the value of a command for replication goes
\* through the propagation block before it is the reply.
Valued(cn, value) ==
    IF for_replication(cn.cur) THEN [cn EXCEPT !.pc = "prop", !.value = value]
    ELSE Finished(cn, value)

\* blocking_pop, one round of its loop up to the await: an Err of the pop ends
\* the task ('?'), an element is the reply, a passed deadline gives the null
\* array, otherwise a timer task is spawned.
BlockingPop(c) ==
    /\ conn[c].pc = "run" /\ conn[c].cur.op \in {"Blpop", "Brpop"}
    /\ LET command == conn[c].cur
           end == IF conn[c].end_secs.some THEN conn[c].end_secs.v
                  ELSE now + command.timeout_secs
           r == pop_first(dict, command.keys, command.op = "Blpop")
       IN  IF ~r.res.ok
           THEN /\ conn' = [conn EXCEPT ![c] = Closed]
                /\ tx_lock' = Dropped(c, tx_lock)
                /\ UNCHANGED <<dict, timers>>
           ELSE IF r.res.v.some
           THEN /\ dict' = r.db
                /\ conn' = [conn EXCEPT ![c] =
                               Valued(conn[c], Array(<<BulkString(r.res.v.v[1]),
                                                       BulkString(r.res.v.v[2])>>))]
                /\ tx_lock' = IF for_replication(command) THEN tx_lock
                              ELSE Released(conn[c], tx_lock)
                /\ UNCHANGED timers
           ELSE IF end - now <= 0
           THEN /\ conn' = [conn EXCEPT ![c] = Valued(conn[c], NullArray)]
                /\ tx_lock' = IF for_replication(command) THEN tx_lock
                              ELSE Released(conn[c], tx_lock)
                /\ UNCHANGED <<dict, timers>>
           ELSE /\ conn' = [conn EXCEPT ![c].pc = "notified", ![c].end_secs = Some(end)]
                /\ timers' = [timers EXCEPT ![end] = @ + 1]
                /\ UNCHANGED <<dict, tx_lock>>
    /\ UNCHANGED <<netVars, histVars, fnVars, startVars, lockVars, mirrorVars, pipeVars, waitVars, now, storeHistory, transaction_store, stream_notify, applied, ncmds,
                   replVars>>

\* blocking_pop, stream_notify.notified().await: a stored permit is consumed,
\* otherwise the task waits.
AwaitNotified(c) ==
    /\ conn[c].pc = "notified"
    /\ IF stream_notify.permit
       THEN /\ stream_notify' = [stream_notify EXCEPT !.permit = FALSE]
            /\ conn' = [conn EXCEPT ![c].pc = "run"]
       ELSE /\ stream_notify' = [stream_notify EXCEPT !.waiters = Append(@, c)]
            /\ conn' = [conn EXCEPT ![c].pc = "blocked"]
    /\ UNCHANGED <<netVars, histVars, fnVars, startVars, lockVars, mirrorVars, pipeVars, waitVars, dict, now, storeHistory, transaction_store, tx_lock, timers, applied,
                   ncmds, replVars>>

\* A timer task of blocking_pop: after its sleep, stream_notify.notify_waiters().
TimerFire(t) ==
    /\ timers[t] > 0
    /\ now >= t
    /\ timers' = [timers EXCEPT ![t] = @ - 1]
    /\ stream_notify' = notify_waiters(stream_notify)
    /\ conn' = Wake(conn, woken_by_all(stream_notify))
    /\ UNCHANGED <<netVars, histVars, fnVars, startVars, lockVars, mirrorVars, pipeVars, waitVars, dict, now, storeHistory, transaction_store, tx_lock, applied, ncmds,
                   replVars>>

\* The clock advances (observed only through the deadlines of sleeping timers).
EngTick ==
    /\ now < MaxTime
    /\ \E t \in DOMAIN timers : timers[t] > 0 /\ t > now
    /\ now' = now + 1
    /\ UNCHANGED <<netVars, histVars, fnVars, startVars, lockVars, mirrorVars, pipeVars, waitVars, dict, storeHistory, conn, transaction_store, tx_lock, stream_notify,
                   timers, applied, ncmds, replVars>>

Next ==
    \/ \E c \in Conns, command \in EngCmds : Execute(c, command) /\ UNCHANGED <<netVars, histVars, fnVars, startVars, lockVars, mirrorVars, pipeVars>>
    \/ \E c \in Conns : Queue(c)
    \/ \E c \in Conns : ExecuteMulti(c)
    \/ \E c \in Conns : ExecuteExec(c)
    \/ \E c \in Conns : ExecuteDiscard(c)
    \/ \E c \in Conns, overflow_checks \in BOOLEAN : ExecuteStore(c, overflow_checks)
    \/ \E c \in Conns : Propagate(c)
    \/ \E c \in Conns : BlockingPop(c)
    \/ \E c \in Conns : AwaitNotified(c)
    \/ \E t \in DOMAIN timers : TimerFire(t)
    \/ EngTick

Spec == Init /\ [][Next]_vars

(***************************************************************************)
(* Claims about the engine (checked under Spec).                           *)
(***************************************************************************)
InTx(c) == is_transaction(transaction_store, c)

\* C1: an EXEC of a connection in a transaction runs the queued commands in
\* queue order and ends with an Array reply of exactly one element per queued
\* command, after which the connection has no transaction buffer.
C1_ExecReplies ==
    [][\A c \in Conns :
          /\ InExec(conn[c]) => conn[c].cur = conn[c].exec_cmds[Len(conn[c].subvalues) + 1]
          /\ (InExec(conn[c]) /\ conn'[c].pc \in {"read", "closed"})
             => /\ conn'[c].pc = "read"
                /\ conn'[c].reply.tag = "Array"
                /\ Len(conn'[c].reply.list) = Len(conn[c].exec_cmds)
                /\ ~InTx(c)']_vars

\* C2: a connection in a transaction runs nothing but EXEC and DISCARD; every
\* other command except MULTI goes to the queueing branch, whose step appends
\* the command to the connection's buffer and replies QUEUED; no step of that
\* handling changes the store, the write queue or the leader offset.
C2_Queued ==
    /\ [](\A c \in Conns :
            (InTx(c) /\ conn[c].pc \notin {"read", "queue"})
                => conn[c].cmd.op \in {"Exec", "Discard"})
    /\ [][\A c \in Conns :
            /\ (InTx(c) /\ conn[c].pc = "read" /\ conn'[c] # conn[c]
                  /\ conn'[c].cmd.op \notin {"none", "Exec", "Discard", "Multi"})
               => /\ conn'[c].pc = "queue"
                  /\ UNCHANGED <<dict, write_queue, offset, transaction_store>>
            /\ (conn[c].pc = "queue" /\ conn'[c] # conn[c])
               => /\ InTx(c)
                  /\ conn'[c].pc = "read"
                  /\ conn'[c].reply.tag = "SimpleString" /\ conn'[c].reply.s = "QUEUED"
                  /\ transaction_store'[c] = Some(Append(transaction_store[c].v, conn[c].cmd))
                  /\ UNCHANGED <<dict, write_queue, offset>>]_vars

C2_Witness ==
    \E c \in Conns :
        /\ conn[c].pc = "read"
        /\ conn[c].reply.tag = "SimpleString" /\ conn[c].reply.s = "QUEUED"
        /\ InTx(c) /\ Len(transaction_store[c].v) = 2
        /\ transaction_store[c].v[1].op = "Set" /\ transaction_store[c].v[2].op = "Rpush"
        /\ dict = EmptyDb /\ write_queue = <<>> /\ offset = 0

\* C3: while an EXEC is between its first and its last queued command, the
\* store changes only by the steps of that EXEC.
C3_ExecAtomic ==
    [][\A c \in Conns :
          (InExec(conn[c]) /\ conn[c].subvalues # <<>>
             /\ conn[c].pc \in {"run", "notified", "blocked"} /\ dict' # dict)
          => (conn[c].pc = "run" /\ conn'[c] # conn[c])]_vars

\* The sum of the lengths of the wire forms of the commands of a queue.
RECURSIVE wire_length(_)
wire_length(queue) ==
    IF queue = <<>> THEN 0
    ELSE Len(serialize(into_resp(Head(queue)))) + wire_length(Tail(queue))

\* C8: the leader offset is always the sum of the serialized lengths of the
\* commands in the write queue; offset and queue change only in the
\* propagation step of a propagatable command C, by the length of C's wire
\* form and by C; and every propagatable command that was executed reaches
\* that step.
C8_OffsetLaw ==
    /\ [](offset = wire_length(write_queue))
    /\ [][(offset' # offset \/ write_queue' # write_queue)
            => \E c \in Conns :
                  /\ conn[c].pc = "prop" /\ conn'[c] # conn[c]
                  /\ for_replication(conn[c].cur)
                  /\ offset' = offset + Len(serialize(into_resp(conn[c].cur)))
                  /\ write_queue' = Append(write_queue, conn[c].cur)]_vars
    /\ [][\A c \in Conns :
            (conn[c].pc = "run" /\ for_replication(conn[c].cur) /\ conn'[c] # conn[c])
               => conn'[c].pc \in {"prop", "closed"}]_vars

C8_Witness ==
    /\ Len(write_queue) = 2
    /\ write_queue[1].op = "Set" /\ write_queue[2].op = "Rpush"
    /\ offset = Len(serialize(into_resp(write_queue[1])))
                   + Len(serialize(into_resp(write_queue[2])))
    /\ \A c \in Conns : conn[c].pc = "read"

\* C9: once every executed propagatable command has been propagated, the
\* write queue holds the commands in the order in which they were applied to
\* the store.
C9_QueueOrder ==
    (\A c \in Conns : conn[c].pc # "prop") => write_queue = applied

\* The commands the task of a connection holds: the one it runs and, inside
\* EXEC, the buffer it took.
Held(cn) == {cn.cur} \cup {cn.pending[i] : i \in 1..Len(cn.pending)}
                \cup {cn.exec_cmds[i] : i \in 1..Len(cn.exec_cmds)}

\* C16: the step of DISCARD in a transaction replies +OK, removes the buffer
\* of the connection and leaves the store, the write queue and the leader
\* offset as they were; after it neither the transaction store nor the task
\* of the connection holds any of the queued commands, so none can run.
C16_Discard ==
    [][\A c \in Conns :
          (conn[c].pc = "run" /\ conn[c].cur.op = "Discard" /\ InTx(c) /\ conn'[c] # conn[c])
          => /\ conn'[c].pc = "read"
             /\ conn'[c].reply.tag = "SimpleString" /\ conn'[c].reply.s = "OK"
             /\ ~InTx(c)'
             /\ Held(conn'[c]) = {NoCmd}
             /\ UNCHANGED <<dict, write_queue, offset, applied>>]_vars

C16_Witness ==
    \E c \in Conns :
        /\ discarded[c].some /\ Len(discarded[c].v) = 2
        /\ discarded[c].v[1].op = "Set" /\ discarded[c].v[2].op = "Rpush"
        /\ conn[c].pc = "read"
        /\ conn[c].reply.tag = "SimpleString" /\ conn[c].reply.s = "OK"
        /\ ~InTx(c)
        /\ dict = EmptyDb /\ write_queue = <<>> /\ offset = 0

\* The reply execute writes for a MULTI inside a transaction.
IsNestedReply(v) ==
    /\ v.tag \in {"SimpleString", "SimpleError"}
    /\ v.s = "ERR MULTI calls can not be nested"

\* C17: a MULTI read by a connection that is in a transaction is answered with
\* a SimpleError (the frame that starts with '-'), and the step leaves the
\* transaction store, with the commands queued so far, as it was.
C17_NestedMulti ==
    [][\A c \in Conns :
          (/\ conn[c].pc = "read" /\ InTx(c) /\ ncmds' = ncmds + 1
           /\ conn'[c].pc = "read" /\ IsNestedReply(conn'[c].reply))
          => /\ conn'[c].reply.tag = "SimpleError"
             /\ transaction_store' = transaction_store]_vars

\* The connection runs a blocking pop.
Blocking(cn) == cn.cur.op \in {"Blpop", "Brpop"}

\* The pop of a blocking pop fails: one of its keys, before any list with an
\* element, holds a value that is not a list.
PopTypeError(db, command) ==
    ~pop_first(db, command.keys, command.op = "Blpop").res.ok

\* C19: a type error is answered with an error frame and the task of the
\* connection goes on reading: the step of a BLPOP or BRPOP (not one run by
\* EXEC) whose key holds a value that is not a list ends with a SimpleError
\* as the reply and the connection waiting for its next frame.
C19_ErrorsReplied ==
    [][\A c \in Conns :
          (/\ conn[c].pc = "run" /\ Blocking(conn[c]) /\ ~InExec(conn[c])
           /\ PopTypeError(dict, conn[c].cur)
           /\ conn'[c] # conn[c])
          => /\ conn'[c].pc = "read"
             /\ conn'[c].reply.tag = "SimpleError"]_vars

\* C20: a propagatable command whose value is an error reply is not
\* propagated: the step that follows its execution leaves the write queue
\* and the offset of the leader as they were.
C20_ErrorsNotPropagated ==
    [][\A c \in Conns :
          (/\ conn[c].pc = "prop" /\ conn[c].value.tag = "SimpleError"
           /\ conn'[c] # conn[c])
          => UNCHANGED <<write_queue, offset>>]_vars

\* C21: the write queue and the offset of the leader change only in the
\* propagation step of SET, RPUSH, LPUSH, LPOP, RPOP, LPOPN, RPOPN, XADD,
\* INCR, ZADD or GEOADD, which appends that command; every step of a BLPOP or
\* BRPOP, also the one that pops an element, leaves both as they were and
\* does not lead to the propagation step.
Propagatable ==
    {"Set", "Rpush", "Lpush", "Lpop", "Rpop", "Lpopn", "Rpopn", "Xadd", "Incr", "Zadd",
     "Geoadd"}

C21_OnlyPropagatable ==
    [][/\ (write_queue' # write_queue \/ offset' # offset)
          => \E c \in Conns :
                 /\ conn[c].pc = "prop"
                 /\ conn[c].cur.op \in Propagatable
                 /\ write_queue' = Append(write_queue, conn[c].cur)
       /\ \A c \in Conns :
              /\ conn'[c].pc = "prop" => conn'[c].cur.op \in Propagatable
              /\ (Blocking(conn[c]) /\ conn'[c] # conn[c])
                    => UNCHANGED <<write_queue, offset>>]_vars

\* A BLPOP has popped the element an RPUSH stored; only the RPUSH is queued.
C21_Witness ==
    \E c \in Conns :
        /\ conn[c].pc = "read"
        /\ conn[c].reply = Array(<<BulkString(EngKey), BulkString(<<"x">>)>>)
        /\ write_queue = <<Rpush(EngKey, <<<<"x">>>>)>>
        /\ offset = Len(serialize(into_resp(Rpush(EngKey, <<<<"x">>>>))))

(***************************************************************************)
(* Blocking pops of several connections on several keys, and clients that  *)
(* close their connection (Engine::push, Engine::blocking_pop,             *)
(* Server::handle_request).                                                *)
(***************************************************************************)
BlockConns == {1, 2, 3}
OtherKey == <<"j">>
BlockKeys == {EngKey, OtherKey}
BlockCmds == {Blpop(<<EngKey>>, 1), Blpop(<<OtherKey>>, 1), Rpush(EngKey, <<<<"x">>>>)}

InitBlock ==
    /\ dict = [k \in BlockKeys |-> NoEntry]
    /\ now = 0
    /\ last = NoOp
    /\ xadd_ids = [k \in StoreKeys |-> <<>>]
    /\ last_set = [k \in StoreKeys |-> None]
    /\ EngineInitOf(BlockConns)
    /\ WriterInit
    /\ WaitInit
    /\ NetInit
    /\ FnInit /\ StartInit /\ LockInit /\ MirrorInit

\* The client of a connection closes its end while the task of the
\* connection waits: for the next frame, or inside blocking_pop, where the
\* task does not look at the stream.
PeerClose(c) ==
    /\ c \notin peer_closed
    /\ conn[c].pc \in {"read", "notified", "blocked"}
    /\ peer_closed' = peer_closed \cup {c}
    /\ UNCHANGED <<storeVars, engineVars, replVars, waitVars, replica, leader_frames, histVars, fnVars, startVars, lockVars, mirrorVars, pipeVars>>

\* handle_request: read_resp_value_from_buf_reader yields None at the end of
\* the stream and the task ends.
ReadEof(c) ==
    /\ c \in peer_closed
    /\ conn[c].pc = "read"
    /\ conn' = [conn EXCEPT ![c] = Closed]
    /\ UNCHANGED <<storeVars, transaction_store, tx_lock, stream_notify, timers, applied, ncmds,
                   replVars, waitVars, netVars, histVars, fnVars, startVars, lockVars, mirrorVars, pipeVars>>

NextBlock ==
    \/ \E c \in BlockConns, command \in BlockCmds :
           /\ ncmds < MaxBlockCmds
           /\ c \notin peer_closed
           /\ Execute(c, command)
           /\ UNCHANGED <<netVars, histVars, fnVars, startVars, lockVars, mirrorVars, pipeVars>>
    \/ \E c \in BlockConns : ExecuteStore(c, FALSE)
    \/ \E c \in BlockConns : Propagate(c)
    \/ \E c \in BlockConns : BlockingPop(c)
    \/ \E c \in BlockConns : AwaitNotified(c)
    \/ \E t \in DOMAIN timers : TimerFire(t)
    \/ EngTick
    \/ \E c \in BlockConns : PeerClose(c)
    \/ \E c \in BlockConns : ReadEof(c)

SpecBlock == InitBlock /\ [][NextBlock]_vars

(***************************************************************************)
(* Claims about blocking pops (checked under SpecBlock).                   *)
(***************************************************************************)

\* The list at key holds an element.
HasElement(db, key) == db[key].t = "list" /\ db[key].array # <<>>

\* The timer tasks of blocking_pop whose sleep is over and that have not
\* signalled yet.
DuePopTimers == {t \in DOMAIN timers : timers[t] > 0 /\ t <= now}

\* The tasks registered on stream_notify inside a blocking pop that names key.
BlockedOn(cs, key) ==
    {c \in DOMAIN cs : /\ cs[c].pc = "blocked" /\ Blocking(cs[c])
                       /\ \E i \in 1..Len(cs[c].cur.keys) : cs[c].cur.keys[i] = key}

\* C13: a push that puts an element into the empty list of a key on which
\* tasks are blocked wakes one of those tasks, whatever other waiters are
\* blocked on other keys.
C13_PushWakes ==
    [][\A key \in DOMAIN dict :
          (BlockedOn(conn, key) # {} /\ ~HasElement(dict, key) /\ HasElement(dict', key))
              => \E c \in BlockedOn(conn, key) : conn'[c].pc = "run"]_vars

\* C14: a blocking pop replies with the null array only once its deadline has
\* passed, and it does not stay blocked after its deadline: whenever it is
\* blocked then, a timer task that is due has yet to signal.
C14_PopDeadline ==
    /\ [][\A c \in DOMAIN conn :
            (Blocking(conn[c]) /\ conn'[c].pc = "read" /\ conn'[c].reply = NullArray)
                => /\ conn[c].pc = "run"
                   /\ conn[c].end_secs.some => now >= conn[c].end_secs.v
                   /\ ~conn[c].end_secs.some => conn[c].cur.timeout_secs <= 0]_vars
    /\ [](\A c \in DOMAIN conn :
            (conn[c].pc = "blocked" /\ Blocking(conn[c]) /\ now >= conn[c].end_secs.v)
                => DuePopTimers # {})

\* C15: once the client of a connection blocked in a blocking pop has closed
\* its end, the task of that connection pops nothing more: none of its steps
\* changes the store.
C15_ClosedWaiter ==
    [][\A c \in peer_closed :
          (conn[c].pc = "run" /\ Blocking(conn[c]) /\ conn'[c] # conn[c]) => dict' = dict]_vars

(***************************************************************************)
(* engine.rs: WAIT, the follower records and the follower tasks of the     *)
(* leader (Engine::wait, handle_replica_connection, the REPLCONF ACK arm). *)
(* The writes of the leader are taken here as single steps.                 *)
(***************************************************************************)
WaitCmd == Set(EngKey, <<"v">>, None)
AckValues == {n * Len(serialize(into_resp(WaitCmd))) : n \in 0..MaxAck}
PsyncOffsets == {-1, Len(serialize(into_resp(WaitCmd)))}
WaitCounts == {1, 2}
WaitTimeouts == {1}

\* A comparison that counts every follower.
is_up_to_date_always(client_offset, writer_offset) == TRUE

\* wait: client_info.offset >= writer_offset
is_up_to_date(client_offset, writer_offset) == client_offset >= writer_offset

\* A pop that leaves the follower's index where it was.
pop_write_command_keeps_index(queue, client_info) ==
    [commands |-> SubSeq(queue, client_info.last_synced_command_index + 2, Len(queue)),
     client_info |-> client_info]

\* WriterRole::pop_write_command: the commands after the follower's index,
\* and the record with the index moved to the end of the queue.
pop_write_command(queue, client_info) ==
    LET last_read_index == client_info.last_synced_command_index
        latest_readable_index == Len(queue) - 1
    IN  IF latest_readable_index = last_read_index
        THEN [commands |-> <<>>, client_info |-> client_info]
        ELSE [commands |-> SubSeq(queue, last_read_index + 2, latest_readable_index + 1),
              client_info |-> [client_info EXCEPT
                                 !.last_synced_command_index = latest_readable_index]]

\* WriterRole::update_client_offset
update_client_offset(cs, request_count, client_offset) ==
    [cs EXCEPT ![request_count] =
        Some([@.v EXCEPT !.offset = client_offset, !.offset_update = "Idle"])]

\* WriterRole::reset_client_offset_state
reset_client_offset_state(cs, request_count) ==
    [cs EXCEPT ![request_count] = Some([@.v EXCEPT !.offset_update = "Idle"])]

WakeFollowers(fs, woken) ==
    [f \in DOMAIN fs |-> IF f \in woken THEN [fs[f] EXCEPT !.pc = "loop"] ELSE fs[f]]

WakeWaits(ws, woken) ==
    [w \in DOMAIN ws |-> IF w \in woken THEN [ws[w] EXCEPT !.pc = "scan"] ELSE ws[w]]

\* A client's propagatable command on the leader: the store method, then
\* push_write_command and wr_cmd_propagation_notify.notify_waiters().
LeaderWrite(command) ==
    /\ Len(write_queue) < MaxWrites
    /\ dict' = run_store(dict, command, now, FALSE).db
    /\ LET writer == push_write_command([offset |-> offset, write_queue |-> write_queue],
                                        command)
       IN  /\ offset' = writer.offset
           /\ write_queue' = writer.write_queue
    /\ wr_cmd_propagation_notify' = notify_waiters(wr_cmd_propagation_notify)
    /\ follower' = WakeFollowers(follower, woken_by_all(wr_cmd_propagation_notify))
    /\ UNCHANGED <<nreplies, now, storeHistory, engineVars, netVars, histVars, fnVars, startVars, lockVars, mirrorVars, pipeVars, clients, waits,
                   wr_read_client_offset_notify, wait_timers, reported>>

\* handle_replica_connection up to its loop: the record of the follower is
\* created, a PSYNC offset >= 0 is stored in it.
Psync(f, psync_offset) ==
    /\ follower[f].pc = "connect"
    /\ LET client_info == IF clients[f].some THEN clients[f].v ELSE ClientInfo_new
           stored == IF psync_offset >= 0 THEN [client_info EXCEPT !.offset = psync_offset]
                     ELSE client_info
       IN  /\ clients' = [clients EXCEPT ![f] = Some(stored)]
           /\ reported' = [reported EXCEPT ![f] = @ \cup {stored.offset}]
    /\ follower' = [follower EXCEPT ![f].pc = "loop"]
    /\ UNCHANGED <<nreplies, storeVars, engineVars, netVars, histVars, fnVars, startVars, lockVars, mirrorVars, pipeVars, replVars, waits, wr_read_client_offset_notify,
                   wr_cmd_propagation_notify, wait_timers>>

\* handle_replica_connection, the head of the loop under the replication_role
\* lock, and the writes to the follower that come after it.
FollowerLoop(f) ==
    /\ follower[f].pc = "loop"
    /\ LET popped == pop_write_command(write_queue, clients[f].v)
           client_offset_update_request == clients[f].v.offset_update = "UpdateRequested"
       IN  /\ clients' = [clients EXCEPT ![f] =
                   Some(IF client_offset_update_request
                        THEN [popped.client_info EXCEPT !.offset_update = "Updating"]
                        ELSE popped.client_info)]
           /\ follower' = [follower EXCEPT
                   ![f].pc = IF popped.commands = <<>> /\ ~client_offset_update_request
                             THEN "notified"
                             ELSE IF client_offset_update_request THEN "getack"
                             ELSE "loop",
                   ![f].sent = @ \o popped.commands]
    /\ UNCHANGED <<nreplies, storeVars, engineVars, netVars, histVars, fnVars, startVars, lockVars, mirrorVars, pipeVars, replVars, waits, wr_read_client_offset_notify,
                   wr_cmd_propagation_notify, wait_timers, reported>>

\* handle_replica_connection: wr_cmd_propagation_notify.notified().await
FollowerAwait(f) ==
    /\ follower[f].pc = "notified"
    /\ IF wr_cmd_propagation_notify.permit
       THEN /\ wr_cmd_propagation_notify' = [wr_cmd_propagation_notify EXCEPT !.permit = FALSE]
            /\ follower' = [follower EXCEPT ![f].pc = "loop"]
       ELSE /\ wr_cmd_propagation_notify' =
                   [wr_cmd_propagation_notify EXCEPT !.waiters = Append(@, f)]
            /\ follower' = [follower EXCEPT ![f].pc = "wait_prop"]
    /\ UNCHANGED <<nreplies, storeVars, engineVars, netVars, histVars, fnVars, startVars, lockVars, mirrorVars, pipeVars, replVars, clients, waits,
                   wr_read_client_offset_notify, wait_timers, reported>>

\* The follower answers GETACK with REPLCONF ACK client_offset in time: the
\* REPLCONF arm of execute_only stores it and signals the WAIT calls.
FollowerAck(f, client_offset) ==
    /\ follower[f].pc = "getack"
    /\ clients' = update_client_offset(clients, f, client_offset)
    /\ reported' = [reported EXCEPT ![f] = @ \cup {client_offset}]
    /\ wr_read_client_offset_notify' = notify_one(wr_read_client_offset_notify)
    /\ waits' = WakeWaits(waits, woken_by_one(wr_read_client_offset_notify))
    /\ follower' = [follower EXCEPT ![f].pc = "loop"]
    /\ nreplies < MaxReplies
    /\ nreplies' = nreplies + 1
    /\ UNCHANGED <<storeVars, engineVars, netVars, histVars, fnVars, startVars, lockVars, mirrorVars, pipeVars, replVars, wr_cmd_propagation_notify, wait_timers>>

\* No frame within 50 ms, or an empty or unparsable one: the state is reset.
FollowerNoAck(f) ==
    /\ follower[f].pc = "getack"
    /\ clients' = reset_client_offset_state(clients, f)
    /\ follower' = [follower EXCEPT ![f].pc = "loop"]
    /\ nreplies < MaxReplies
    /\ nreplies' = nreplies + 1
    /\ UNCHANGED <<storeVars, engineVars, netVars, histVars, fnVars, startVars, lockVars, mirrorVars, pipeVars, replVars, waits, wr_read_client_offset_notify,
                   wr_cmd_propagation_notify, wait_timers, reported>>

\* The frame is another command (PING): execute_only runs it, the record is
\* left as it is.
FollowerOther(f) ==
    /\ follower[f].pc = "getack"
    /\ follower' = [follower EXCEPT ![f].pc = "loop"]
    /\ nreplies < MaxReplies
    /\ nreplies' = nreplies + 1
    /\ UNCHANGED <<storeVars, engineVars, netVars, histVars, fnVars, startVars, lockVars, mirrorVars, pipeVars, replVars, clients, waits,
                   wr_read_client_offset_notify, wr_cmd_propagation_notify, wait_timers,
                   reported>>

\* wait, before its loop: the leader offset and the deadline are read.
WaitStart(w, replica_count, timeout_ms) ==
    /\ waits[w].pc = "idle"
    /\ waits' = [waits EXCEPT ![w] =
          [pc |-> "scan", replica_count |-> replica_count, writer_offset |-> offset,
           end_ms |-> now + timeout_ms, up_to_date_replicas |-> {}, result |-> -1]]
    /\ UNCHANGED <<nreplies, storeVars, engineVars, netVars, histVars, fnVars, startVars, lockVars, mirrorVars, pipeVars, replVars, clients, follower,
                   wr_read_client_offset_notify, wr_cmd_propagation_notify, wait_timers,
                   reported>>

\* A scan that requests an update of every record that is behind, whatever
\* its state.
WaitScanAlways(w) ==
    /\ waits[w].pc = "scan"
    /\ LET wt == waits[w]
           fresh == {f \in DOMAIN clients :
                        clients[f].some
                        /\ is_up_to_date(clients[f].v.offset, wt.writer_offset)}
           asked == {f \in DOMAIN clients :
                        clients[f].some
                        /\ ~is_up_to_date(clients[f].v.offset, wt.writer_offset)}
           up_to_date_replicas == wt.up_to_date_replicas \cup fresh
       IN  /\ clients' = [f \in DOMAIN clients |->
                   IF f \in asked
                   THEN Some([clients[f].v EXCEPT !.offset_update = "UpdateRequested"])
                   ELSE clients[f]]
           /\ IF Cardinality(up_to_date_replicas) < wt.replica_count /\ now < wt.end_ms
              THEN /\ waits' = [waits EXCEPT ![w].pc = "await",
                                             ![w].up_to_date_replicas = up_to_date_replicas]
                   /\ wait_timers' = [wait_timers EXCEPT ![wt.end_ms] = @ + 1]
                   /\ IF asked # {}
                      THEN /\ wr_cmd_propagation_notify' =
                                 notify_waiters(wr_cmd_propagation_notify)
                           /\ follower' = WakeFollowers(follower,
                                              woken_by_all(wr_cmd_propagation_notify))
                      ELSE UNCHANGED <<wr_cmd_propagation_notify, follower>>
              ELSE /\ waits' = [waits EXCEPT ![w].pc = "done",
                                             ![w].up_to_date_replicas = up_to_date_replicas,
                                             ![w].result = Cardinality(up_to_date_replicas)]
                   /\ UNCHANGED <<wait_timers, wr_cmd_propagation_notify, follower>>
    /\ UNCHANGED <<nreplies, storeVars, engineVars, netVars, histVars, fnVars, startVars, lockVars, mirrorVars, pipeVars, replVars, wr_read_client_offset_notify, reported>>

\* wait, one round of its loop up to the await: the records are examined
\* under the replication_role lock, then the call returns or arms a timer.
WaitScan(w) ==
    /\ waits[w].pc = "scan"
    /\ LET wt == waits[w]
           fresh == {f \in DOMAIN clients :
                        clients[f].some
                        /\ is_up_to_date(clients[f].v.offset, wt.writer_offset)}
           asked == {f \in DOMAIN clients :
                        clients[f].some
                        /\ ~is_up_to_date(clients[f].v.offset, wt.writer_offset)
                        /\ clients[f].v.offset_update = "Idle"}
           up_to_date_replicas == wt.up_to_date_replicas \cup fresh
       IN  /\ clients' = [f \in DOMAIN clients |->
                   IF f \in asked
                   THEN Some([clients[f].v EXCEPT !.offset_update = "UpdateRequested"])
                   ELSE clients[f]]
           /\ IF Cardinality(up_to_date_replicas) < wt.replica_count /\ now < wt.end_ms
              THEN /\ waits' = [waits EXCEPT ![w].pc = "await",
                                             ![w].up_to_date_replicas = up_to_date_replicas]
                   /\ wait_timers' = [wait_timers EXCEPT ![wt.end_ms] = @ + 1]
                   /\ IF asked # {}
                      THEN /\ wr_cmd_propagation_notify' =
                                 notify_waiters(wr_cmd_propagation_notify)
                           /\ follower' = WakeFollowers(follower,
                                              woken_by_all(wr_cmd_propagation_notify))
                      ELSE UNCHANGED <<wr_cmd_propagation_notify, follower>>
              ELSE /\ waits' = [waits EXCEPT ![w].pc = "done",
                                             ![w].up_to_date_replicas = up_to_date_replicas,
                                             ![w].result = Cardinality(up_to_date_replicas)]
                   /\ UNCHANGED <<wait_timers, wr_cmd_propagation_notify, follower>>
    /\ UNCHANGED <<nreplies, storeVars, engineVars, netVars, histVars, fnVars, startVars, lockVars, mirrorVars, pipeVars, replVars, wr_read_client_offset_notify, reported>>

\* wait: wr_read_client_offset_notify.notified().await
WaitAwait(w) ==
    /\ waits[w].pc = "await"
    /\ IF wr_read_client_offset_notify.permit
       THEN /\ wr_read_client_offset_notify' =
                   [wr_read_client_offset_notify EXCEPT !.permit = FALSE]
            /\ waits' = [waits EXCEPT ![w].pc = "scan"]
       ELSE /\ wr_read_client_offset_notify' =
                   [wr_read_client_offset_notify EXCEPT !.waiters = Append(@, w)]
            /\ waits' = [waits EXCEPT ![w].pc = "blocked"]
    /\ UNCHANGED <<nreplies, storeVars, engineVars, netVars, histVars, fnVars, startVars, lockVars, mirrorVars, pipeVars, replVars, clients, follower,
                   wr_cmd_propagation_notify, wait_timers, reported>>

\* A timer task of wait: after its sleep, wr_read_client_offset_notify.notify_one().
WaitTimerFire(t) ==
    /\ wait_timers[t] > 0
    /\ now >= t
    /\ wait_timers' = [wait_timers EXCEPT ![t] = @ - 1]
    /\ wr_read_client_offset_notify' = notify_one(wr_read_client_offset_notify)
    /\ waits' = WakeWaits(waits, woken_by_one(wr_read_client_offset_notify))
    /\ UNCHANGED <<nreplies, storeVars, engineVars, netVars, histVars, fnVars, startVars, lockVars, mirrorVars, pipeVars, replVars, clients, follower,
                   wr_cmd_propagation_notify, reported>>

WaitTick ==
    /\ now < MaxTime
    /\ \E t \in DOMAIN wait_timers : wait_timers[t] > 0 /\ t > now
    /\ now' = now + 1
    /\ UNCHANGED <<dict, storeHistory, engineVars, netVars, histVars, fnVars, startVars, lockVars, mirrorVars, pipeVars, replVars, waitVars>>

NextWait ==
    \/ LeaderWrite(WaitCmd)
    \/ \E f \in Followers, psync_offset \in PsyncOffsets : Psync(f, psync_offset)
    \/ \E f \in Followers : FollowerLoop(f)
    \/ \E f \in Followers : FollowerAwait(f)
    \/ \E f \in Followers, client_offset \in AckValues : FollowerAck(f, client_offset)
    \/ \E f \in Followers : FollowerNoAck(f)
    \/ \E f \in Followers : FollowerOther(f)
    \/ \E w \in Waits, replica_count \in WaitCounts, timeout_ms \in WaitTimeouts :
           WaitStart(w, replica_count, timeout_ms)
    \/ \E w \in Waits : WaitScan(w)
    \/ \E w \in Waits : WaitAwait(w)
    \/ \E t \in DOMAIN wait_timers : WaitTimerFire(t)
    \/ WaitTick

SpecWait == Init /\ [][NextWait]_vars

(***************************************************************************)
(* Claims about WAIT (checked under SpecWait).                             *)
(***************************************************************************)
\* The followers that have reported an offset of at least writer_offset: the
\* offsets a follower has reported are the ones its record has held (0 when
\* it registered, the offset of its PSYNC, each REPLCONF ACK).
ReportedAtLeast(writer_offset) ==
    {f \in Followers : \E client_offset \in reported[f] : client_offset >= writer_offset}

\* C10: a WAIT that has returned k read the leader offset T at its start, and
\* at least k distinct followers have reported an offset >= T.
C10_WaitSound ==
    \A w \in Waits :
        waits[w].pc = "done"
            => Cardinality(ReportedAtLeast(waits[w].writer_offset)) >= waits[w].result

C10_Witness ==
    \E w \in Waits :
        /\ waits[w].pc = "done" /\ waits[w].result = 1 /\ waits[w].replica_count = 2
        /\ waits[w].writer_offset > 0
        /\ Cardinality(ReportedAtLeast(waits[w].writer_offset)) = 1
        /\ \A f \in Followers : clients[f].some /\ 0 \in reported[f]

(***************************************************************************)
(* Engine::wait with several WAIT calls under way at once: the calls share *)
(* wr_read_client_offset_notify, which their timer tasks and the REPLCONF  *)
(* ACK arm signal with notify_one().                                       *)
(***************************************************************************)
DeadlineWaits == {1, 2}
DeadlineFollowers == {1}
DeadlineTimeouts == {1, 2}

InitDeadline ==
    /\ StoreInit
    /\ EngineInit
    /\ WriterInit
    /\ WaitInitOf(DeadlineFollowers, DeadlineWaits)
    /\ NetInit
    /\ FnInit /\ StartInit /\ LockInit /\ MirrorInit

NextDeadline ==
    \/ LeaderWrite(WaitCmd)
    \/ \E f \in DeadlineFollowers, psync_offset \in PsyncOffsets : Psync(f, psync_offset)
    \/ \E f \in DeadlineFollowers : FollowerLoop(f)
    \/ \E f \in DeadlineFollowers : FollowerAwait(f)
    \/ \E f \in DeadlineFollowers, client_offset \in AckValues : FollowerAck(f, client_offset)
    \/ \E f \in DeadlineFollowers : FollowerNoAck(f)
    \/ \E f \in DeadlineFollowers : FollowerOther(f)
    \/ \E w \in DeadlineWaits, replica_count \in WaitCounts, timeout_ms \in DeadlineTimeouts :
           /\ now + timeout_ms <= MaxTime
           /\ WaitStart(w, replica_count, timeout_ms)
    \/ \E w \in DeadlineWaits : WaitScan(w)
    \/ \E w \in DeadlineWaits : WaitAwait(w)
    \/ \E t \in DOMAIN wait_timers : WaitTimerFire(t)
    \/ WaitTick

SpecDeadline == InitDeadline /\ [][NextDeadline]_vars

\* The timer tasks whose sleep is over and that have not signalled yet.
DueTimers == {t \in DOMAIN wait_timers : wait_timers[t] > 0 /\ t <= now}

\* C11: a WAIT whose deadline has passed does not stay blocked on the ack
\* notifier: whenever it is blocked there, a timer task that is due has yet
\* to signal.
C11_WaitDeadline ==
    \A w \in DOMAIN waits :
        (waits[w].pc = "blocked" /\ now >= waits[w].end_ms) => DueTimers # {}

(***************************************************************************)
(* engine.rs: the node as a follower (handle_replication_connection,       *)
(* replica_handshake, listen_for_replication_updates).  A frame is read    *)
(* once all its bytes have arrived.                                        *)
(***************************************************************************)
GetAck == Array(bulk_strings(<<<<"R", "E", "P", "L", "C", "O", "N", "F">>,
                               <<"G", "E", "T", "A", "C", "K">>, <<"*">>>>))

FollowerFrames ==
    {into_resp(Set(EngKey, <<"v">>, None)), into_resp(Set(EngKey, <<"6">>, Some(1))), GetAck}

\* execute_only, Command::Replconf on a reader.
replconf_reader(args, current_offset) ==
    IF Len(args) = 2 /\ to_lowercase(args[1]) = <<"g", "e", "t", "a", "c", "k">>
    THEN Array(<<BulkString(<<"R", "E", "P", "L", "C", "O", "N", "F">>),
                 BulkString(<<"A", "C", "K">>),
                 BulkString(to_string(current_offset))>>)
    ELSE SimpleError("ERR writer commands on a non-writer node")

\* The leader writes a frame to the follower.
LeaderSend(frame) ==
    /\ Len(leader_frames) < MaxFrames
    /\ leader_frames' = Append(leader_frames, frame)
    /\ replica' = [replica EXCEPT !.stream = @ \o serialize(frame)]
    /\ UNCHANGED <<storeVars, engineVars, replVars, waitVars, peer_closed, histVars, fnVars, startVars, lockVars, mirrorVars, pipeVars>>

\* replica_handshake and reset_byte_counter: the three replies, the
\* FULLRESYNC line and the snapshot are read, then the counters are reset.
ReplicaHandshake ==
    /\ replica.pc = "handshake"
    /\ LET pong == read_resp_value(replica.stream)
           ok1 == read_resp_value(pong.rest)
           ok2 == read_resp_value(ok1.rest)
           response == read_resp_value(ok2.rest)
           snapshot == read_bulk_bytes_from_tcp_stream(response.rest)
           reader == count_bytes(replica.reader, pong.count + ok1.count + ok2.count
                                                    + response.count + snapshot.count)
       IN  replica' = IF pong.res.ok /\ ok1.res.ok /\ ok2.res.ok /\ response.res.ok
                         /\ snapshot.res.ok
                      THEN [replica EXCEPT !.pc = "listen", !.stream = snapshot.rest,
                                           !.reader = reset_byte_counter(reader)]
                      ELSE [replica EXCEPT !.pc = "closed"]
    /\ UNCHANGED <<storeVars, engineVars, replVars, waitVars, leader_frames, peer_closed, histVars, fnVars, startVars, lockVars, mirrorVars, pipeVars>>

\* listen_for_replication_updates, one round of its loop: a frame is read and
\* parsed; REPLCONF is executed and replied to, any other command is executed
\* without a reply; then the byte count is committed.
ReplicaListen(overflow_checks) ==
    /\ replica.pc = "listen"
    /\ replica.stream # <<>>
    /\ LET r == read_resp_value(replica.stream)
           reader == count_bytes(replica.reader, r.count)
           command == parse(r.res.v.v)
       IN  IF ~r.res.ok \/ ~r.res.v.some \/ ~command.ok
           THEN /\ replica' = [replica EXCEPT !.pc = "closed", !.stream = r.rest,
                                              !.reader = reader]
                /\ UNCHANGED dict
           ELSE IF is_replconf(command.v)
           THEN /\ replica' = [replica EXCEPT
                       !.stream = r.rest,
                       !.reader = commit_byte_count(reader),
                       !.written = Append(@, replconf_reader(command.v.args,
                                                             reader.byte_count)),
                       !.nread = @ + 1]
                /\ UNCHANGED dict
           ELSE LET e == IF command.v.op \in StoreOps
                         THEN run_store(dict, command.v, now, overflow_checks)
                         ELSE [db |-> dict, panic |-> FALSE]
                IN  /\ dict' = e.db
                    /\ replica' = IF e.panic
                                  THEN [replica EXCEPT !.pc = "closed", !.stream = r.rest,
                                                       !.reader = reader]
                                  ELSE [replica EXCEPT !.stream = r.rest,
                                                       !.reader = commit_byte_count(reader),
                                                       !.nread = @ + 1]
    /\ UNCHANGED <<now, storeHistory, engineVars, replVars, waitVars, leader_frames,
                   peer_closed, histVars, fnVars, startVars, lockVars, mirrorVars, pipeVars>>

NextReplica ==
    \/ \E frame \in FollowerFrames : LeaderSend(frame)
    \/ ReplicaHandshake
    \/ \E overflow_checks \in BOOLEAN : ReplicaListen(overflow_checks)

SpecReplica == Init /\ [][NextReplica]_vars

\* The number of bytes of the wire forms of a sequence of frames.
RECURSIVE frames_length(_)
frames_length(frames) ==
    IF frames = <<>> THEN 0
    ELSE Len(serialize(Head(frames))) + frames_length(Tail(frames))

\* C12: the offset a follower sends in reply to REPLCONF GETACK * is the
\* number of bytes of the frames it received after the snapshot and before
\* that GETACK frame; after the reply the bytes of the GETACK frame count too.
C12_AckOffset ==
    /\ [](replica.pc = "listen"
            => replica.reader.byte_count
                  = frames_length(SubSeq(leader_frames, 1, replica.nread)))
    /\ [][replica'.written # replica.written
            => /\ leader_frames[replica.nread + 1] = GetAck
               /\ replica'.written =
                     Append(replica.written,
                            Array(bulk_strings(<<<<"R", "E", "P", "L", "C", "O", "N", "F">>,
                                   <<"A", "C", "K">>,
                                   to_string(frames_length(SubSeq(leader_frames, 1,
                                                                  replica.nread)))>>)))
               /\ replica'.reader.byte_count
                     = frames_length(SubSeq(leader_frames, 1, replica.nread + 1))]_vars

C12_Witness ==
    /\ Len(replica.written) = 2
    /\ leader_frames = <<into_resp(Set(EngKey, <<"v">>, None)), GetAck, GetAck>>
    /\ replica.written[1].list[3].s = to_string(Len(serialize(leader_frames[1])))
    /\ replica.written[2].list[3].s
          = to_string(Len(serialize(leader_frames[1])) + Len(serialize(GetAck)))


(***************************************************************************)
(* server.rs handle_request with a client that pipelines: the client sends *)
(* frames without waiting for replies.  Every round of the loop builds a   *)
(* new StreamReader, whose BufReader fills its buffer with the bytes the   *)
(* socket has at that moment; the bytes it has taken and not consumed go   *)
(* with it at the end of the round.                                        *)
(***************************************************************************)
PipeConns == {1}
PipeCmds == {Set(EngKey, <<"1">>, None), Set(EngKey, <<"2">>, None)}

InitPipeline ==
    /\ StoreInit /\ EngineInitOf(PipeConns) /\ WriterInit /\ WaitInit /\ NetInit /\ FnInit /\ StartInit /\ LockInit /\ MirrorInit

\* The client writes the frame of a command to its socket.
ClientSend(c, command) ==
    /\ Len(sent[c]) < MaxPipe
    /\ conn[c].pc # "closed"
    /\ sock' = [sock EXCEPT ![c] = @ \o serialize(into_resp(command))]
    /\ sent' = [sent EXCEPT ![c] = Append(@, command)]
    /\ UNCHANGED <<storeVars, engineVars, replVars, waitVars, netVars, histVars, fnVars, startVars, lockVars, mirrorVars, executed>>

\* read_line returns at a newline and waits for one on an open socket: the
\* read of a value ends with the bytes of stream when a further byte would
\* change neither the value nor the number of bytes read.
Available(stream) ==
    LET a == read_resp_value(stream)
        b == read_resp_value(Append(stream, "\n"))
    IN  stream # <<>> /\ a.res = b.res /\ a.count = b.count

\* BufReader::new with read_line: the numbers of bytes the buffer can have
\* taken from the socket when a value of count bytes has been read.
BufReader_taken(stream, count) == count..Len(stream)

\* One round of the loop of handle_request: StreamReader::new, the read of a
\* value, CommandParser::parse, and the call of execute or the error reply.
\* An Err of the read ends the task ('?'), as does a panic of the parser.
HandleRequest(c) ==
    /\ conn[c].pc = "read"
    /\ Available(sock[c])
    /\ LET r == read_resp_value(sock[c])
           command == parse(r.res.v.v)
       IN  /\ \E m \in BufReader_taken(sock[c], r.count) :
                  sock' = [sock EXCEPT ![c] = SubSeq(@, m + 1, Len(@))]
           /\ IF r.res.ok /\ r.res.v.some /\ command.ok
              THEN /\ Execute(c, command.v)
                   /\ executed' = [executed EXCEPT ![c] = Append(@, command.v)]
              ELSE /\ conn' = [conn EXCEPT ![c] =
                         IF ~r.res.ok \/ ~r.res.v.some \/ command.e = "panic" THEN Closed
                         ELSE Idle(SimpleError(command.e))]
                   /\ UNCHANGED <<executed, ncmds, waitVars, dict, now, storeHistory,
                                  transaction_store, tx_lock, stream_notify, timers, applied,
                                  replVars>>
    /\ UNCHANGED <<netVars, histVars, fnVars, startVars, lockVars, mirrorVars, sent>>

NextPipeline ==
    \/ \E c \in PipeConns, command \in PipeCmds : ClientSend(c, command)
    \/ \E c \in PipeConns : HandleRequest(c)
    \/ \E c \in PipeConns : ExecuteStore(c, FALSE)
    \/ \E c \in PipeConns : Propagate(c)

SpecPipeline == InitPipeline /\ [][NextPipeline]_vars

IsPrefix(s, t) == Len(s) <= Len(t) /\ SubSeq(t, 1, Len(s)) = s

\* C18: the commands execute was called with for a connection are, in order,
\* the commands its client sent: at every moment a prefix of them, and all of
\* them once the task waits for a frame and every byte sent has been taken.
C18_Pipelined ==
    \A c \in DOMAIN conn :
        /\ IsPrefix(executed[c], sent[c])
        /\ (conn[c].pc = "read" /\ sock[c] = <<>>) => executed[c] = sent[c]


(***************************************************************************)
(* The wire form of the propagated commands: the leader writes             *)
(* serialize(into_resp(command)) to a follower, which reads a value from   *)
(* the bytes and parses it (listen_for_replication_updates).  The commands *)
(* are those the parser under src/ has an arm for.                         *)
(***************************************************************************)
WireKeys == {<<"k">>, <<"j">>}
WireValues == {<<"x">>, <<"y", "z">>}
WireLists == {<<v>> : v \in WireValues} \cup {<<v, w>> : v, w \in WireValues}
WireExpiries == {None, Some(0), Some(1), Some(1000)}
WireIds == {Wildcard} \cup {MsOnly(ms) : ms \in 0..MaxWireId}
               \cup {Full(ms, seq) : ms \in 0..MaxWireId, seq \in 0..MaxWireId}
WirePairs == {<<<<<<"f">>, <<"v">>>>>>, <<<<<<"f">>, <<"v">>>>, <<<<"g">>, <<"w">>>>>>}
WireCmds ==
    {Set(k, v, e) : k \in WireKeys, v \in WireValues, e \in WireExpiries}
    \cup {Rpush(k, l) : k \in WireKeys, l \in WireLists}
    \cup {Lpush(k, l) : k \in WireKeys, l \in WireLists}
    \cup {Lpop(k) : k \in WireKeys} \cup {Rpop(k) : k \in WireKeys}
    \cup {Lpopn(k, n) : k \in WireKeys, n \in 0..MaxWireId}
    \cup {Rpopn(k, n) : k \in WireKeys, n \in 0..MaxWireId}
    \cup {Xadd(k, id, p) : k \in WireKeys, id \in WireIds, p \in WirePairs}

InitWire == InitOf({Some(command) : command \in WireCmds})

\* What a follower makes of the bytes the leader writes for command.
Reparse(command) ==
    LET r == read_resp_value(serialize(into_resp(command)))
    IN  IF ~r.res.ok THEN r.res
        ELSE IF ~r.res.v.some THEN Err("closed")
        ELSE parse(r.res.v.v)

Reparsed ==
    /\ ~fn_res.some
    /\ fn_res' = Some(Reparse(fn_arg.v))
    /\ UNCHANGED <<storeVars, engineVars, replVars, waitVars, netVars, histVars, pipeVars, startVars, lockVars, mirrorVars, fn_arg>>

NextWire == Reparsed

SpecWire == InitWire /\ [][NextWire]_vars

\* C22: parsing the wire form the leader emits for a propagatable command
\* yields that command.
C22_WireRoundTrip == fn_res.some => fn_res.v = Ok(fn_arg.v)


(***************************************************************************)
(* resp.rs serialize and network.rs read_resp_value: a value is written    *)
(* and read back.                                                          *)
(***************************************************************************)
RespAtoms ==
    {SimpleString(<<"O", "K">>), SimpleString(<<>>), SimpleError(<<"E", "R", "R">>),
     NullBulkString, NullArray, BulkString(<<>>), BulkString(<<"x">>),
     BulkString(<<"a", "b">>), BulkString(<<"x", " ">>)}
    \cup {Integer(n) : n \in (0 - MaxRespInt)..MaxRespInt}
RespFlat == {<<>>} \cup {<<v>> : v \in RespAtoms} \cup {<<v, w>> : v, w \in RespAtoms}
RespValues ==
    RespAtoms \cup {Array(l) : l \in RespFlat}
              \cup {Array(<<Array(l)>>) : l \in {<<>>, <<BulkString(<<"x">>)>>}}

InitResp == InitOf({Some(v) : v \in RespValues})

ReadBack ==
    /\ ~fn_res.some
    /\ fn_res' = Some(read_resp_value(serialize(fn_arg.v)).res)
    /\ UNCHANGED <<storeVars, engineVars, replVars, waitVars, netVars, histVars, pipeVars, startVars, lockVars, mirrorVars, fn_arg>>

NextResp == ReadBack

SpecResp == InitResp /\ [][NextResp]_vars

\* C23: reading the bytes of serialize(x) yields x, for every wire value x.
C23_ReadRoundTrip == fn_res.some => fn_res.v = Ok(Some(fn_arg.v))


(***************************************************************************)
(* command_parser.rs parse on arrays of a command name and 0..MaxArgs      *)
(* arguments.  A panic of the parser is the result Err("panic").           *)
(***************************************************************************)
ArityNames ==
    {[name |-> "ping", raw |-> <<"P", "I", "N", "G">>],
     [name |-> "get", raw |-> <<"G", "E", "T">>],
     [name |-> "set", raw |-> <<"S", "E", "T">>],
     [name |-> "rpush", raw |-> <<"R", "P", "U", "S", "H">>],
     [name |-> "lpush", raw |-> <<"l", "p", "u", "s", "h">>],
     [name |-> "llen", raw |-> <<"L", "L", "E", "N">>],
     [name |-> "lpop", raw |-> <<"L", "P", "O", "P">>],
     [name |-> "rpop", raw |-> <<"R", "p", "o", "p">>],
     [name |-> "type", raw |-> <<"T", "Y", "P", "E">>],
     [name |-> "xadd", raw |-> <<"X", "A", "D", "D">>]}
ArityArgs == {<<"1">>, <<"a">>}

\* The frame of a command name and nargs arguments, each the string a.
ArityFrame(raw, a, nargs) == Array(<<BulkString(raw)>> \o [i \in 1..nargs |-> BulkString(a)])

InitArity ==
    InitOf({Some([name |-> n.name, nargs |-> nargs, input |-> ArityFrame(n.raw, a, nargs)]) :
                n \in ArityNames, a \in ArityArgs, nargs \in 0..MaxArgs})

Parsed ==
    /\ ~fn_res.some
    /\ fn_res' = Some(parse(fn_arg.v.input))
    /\ UNCHANGED <<storeVars, engineVars, replVars, waitVars, netVars, histVars, pipeVars, startVars, lockVars, mirrorVars, fn_arg>>

NextArity == Parsed

SpecArity == InitArity /\ [][NextArity]_vars

\* The numbers of arguments the commands take.
Accepts(name, nargs) ==
    CASE name = "ping"                   -> nargs = 0
      [] name \in {"get", "llen", "type"} -> nargs = 1
      [] name = "set"                    -> nargs \in {2, 4}
      [] name \in {"rpush", "lpush"}     -> nargs >= 2
      [] name \in {"lpop", "rpop"}       -> nargs \in {1, 2}
      [] name = "xadd"                   -> nargs >= 4 /\ nargs % 2 = 0

\* C26: for a number of arguments the command does not take, parse returns
\* the value Err("ERR wrong number of arguments for '<name>' command").
C26_ArityErrors ==
    (fn_res.some /\ ~Accepts(fn_arg.v.name, fn_arg.v.nargs))
        => fn_res.v = Err(wrong_number_of_arguments(fn_arg.v.name))


(***************************************************************************)
(* common.rs PatternMatcher and database.rs keys.  The pattern is turned   *)
(* into a regular expression: '*' becomes ".*", '?' becomes ".", the rest  *)
(* stays, and the whole is put between '^' and '$'.  The regular           *)
(* expressions that arise from the patterns of the model are sequences of  *)
(* a character, '.', or '.' followed by '*'.                               *)
(***************************************************************************)
\* str::replace(from, to) for a character from.
RECURSIVE replace(_, _, _)
replace(s, from, to) ==
    IF s = <<>> THEN <<>>
    ELSE (IF Head(s) = from THEN to ELSE <<Head(s)>>) \o replace(Tail(s), from, to)

\* PatternMatcher::new: the expression between the anchors.
PatternMatcher_new(raw) == replace(replace(raw, "*", <<".", "*">>), "?", <<".">>)

\* One character against one atom of the expression: '.' is any character
\* but the line feed, another character is itself.
atom_match(atom, c) == IF atom = "." THEN c # "\n" ELSE atom = c

\* Regex::is_match of the anchored expression on the whole of other.
RECURSIVE is_match(_, _)
is_match(pattern, other) ==
    IF pattern = <<>> THEN other = <<>>
    ELSE IF Len(pattern) >= 2 /\ pattern[2] = "*"
    THEN \E n \in 0..Len(other) :
             /\ \A j \in 1..n : atom_match(pattern[1], other[j])
             /\ is_match(SubSeq(pattern, 3, Len(pattern)), SubSeq(other, n + 1, Len(other)))
    ELSE /\ other # <<>>
         /\ atom_match(pattern[1], other[1])
         /\ is_match(Tail(pattern), Tail(other))

\* Database::keys: the keys of the dictionary the matcher accepts.
keys(db, raw_pattern) ==
    {key \in DOMAIN db : db[key].t # "none" /\ is_match(PatternMatcher_new(raw_pattern), key)}

GlobChars == {"a", "*", "?", "."}
GlobPatterns ==
    UNION {[1..n -> GlobChars] : n \in 0..MaxPattern}
GlobKeys == UNION {[1..n -> {"a", "b"}] : n \in 0..MaxPattern}
\* The dictionaries: one key present, or all of them.
GlobDbs ==
    {[key \in GlobKeys |-> IF key = only THEN ValueEntry(<<"v">>, None) ELSE NoEntry] :
         only \in GlobKeys}
    \cup {[key \in GlobKeys |-> ValueEntry(<<"v">>, None)]}

InitKeys == InitOf({Some([pattern |-> p, db |-> db]) : p \in GlobPatterns, db \in GlobDbs})

Keys ==
    /\ ~fn_res.some
    /\ fn_res' = Some(keys(fn_arg.v.db, fn_arg.v.pattern))
    /\ UNCHANGED <<storeVars, engineVars, replVars, waitVars, netVars, histVars, pipeVars, startVars, lockVars, mirrorVars, fn_arg>>

NextKeys == Keys

SpecKeys == InitKeys /\ [][NextKeys]_vars

\* The glob: '*' is any sequence, '?' is one character, another character of
\* the pattern is itself.
RECURSIVE Glob(_, _)
Glob(pattern, key) ==
    IF pattern = <<>> THEN key = <<>>
    ELSE IF Head(pattern) = "*"
    THEN \E n \in 0..Len(key) : Glob(Tail(pattern), SubSeq(key, n + 1, Len(key)))
    ELSE /\ key # <<>>
         /\ Head(pattern) = "?" \/ Head(pattern) = Head(key)
         /\ Glob(Tail(pattern), Tail(key))

\* C27: KEYS returns exactly the keys of the store that match the pattern as
\* a glob over the whole key.
C27_KeysGlob ==
    fn_res.some
        => fn_res.v = {key \in DOMAIN fn_arg.v.db :
                          fn_arg.v.db[key].t # "none" /\ Glob(fn_arg.v.pattern, key)}

(***************************************************************************)
(* Startup: Server::run spawns a task for Engine::init and, without        *)
(* awaiting it, binds the listener and accepts connections (the runtime    *)
(* of #[tokio::main] is multi-threaded).  The handlers of the engine and   *)
(* the snapshot load are therefore concurrent; each takes the db lock.     *)
(***************************************************************************)
\* The content RdbFile::read returns: the (key, (expiry_ms, value)) of db 0.
SnapshotFiles ==
    {<<>>, <<[key |-> EngKey, value |-> <<"s">>, expiry_ms |-> None]>>}

\* db.clear()
clear(db) == [k \in DOMAIN db |-> NoEntry]

\* db.clear() and then db.set(key, str, expiry_ms)? for every key of content.
RECURSIVE import(_, _, _)
import(db, content, now_ms) ==
    IF content = <<>> THEN DbResult(db, Ok(Unit))
    ELSE LET r == set(db, Head(content).key, Head(content).value,
                      Head(content).expiry_ms, now_ms)
         IN  IF r.res.ok THEN import(r.db, Tail(content), now_ms) ELSE r

InitStartup ==
    /\ StoreInit
    /\ EngineInit
    /\ WriterInit
    /\ WaitInit
    /\ NetInit
    /\ FnInit /\ LockInit /\ MirrorInit
    /\ rdb_file \in {None} \cup {Some(content) : content \in SnapshotFiles}
    /\ init_task = "spawned"

\* Engine::init on a writer: reload_from_snapshot.  Without a file it
\* returns at once; with one, the store is cleared and filled under one write
\* lock, which no handler holds across steps.
ReloadFromSnapshot ==
    /\ init_task = "spawned"
    /\ init_task' = "done"
    /\ dict' = IF rdb_file.some THEN import(clear(dict), rdb_file.v, now).db ELSE dict
    /\ last_set' = IF rdb_file.some THEN [k \in StoreKeys |-> None] ELSE last_set
    /\ UNCHANGED <<now, last, xadd_ids, rdb_file, engineVars, replVars, waitVars, netVars,
                   histVars, pipeVars, fnVars, lockVars, mirrorVars>>

\* The commands the clients send while the server starts.
StartCmds == {Set(EngKey, <<"c">>, None), Rpush(EngKey, <<<<"x">>>>)}

NextStartup ==
    \/ ReloadFromSnapshot
    \/ \E c \in Conns, command \in StartCmds :
           Execute(c, command) /\ UNCHANGED <<netVars, histVars, fnVars, startVars, lockVars, mirrorVars, pipeVars>>
    \/ \E c \in Conns, overflow_checks \in BOOLEAN : ExecuteStore(c, overflow_checks)
    \/ \E c \in Conns : Propagate(c)

SpecStartup == InitStartup /\ [][NextStartup]_vars

\* C28: with a snapshot file, no handler executes a command before the
\* snapshot is applied (a connection leaves "read" or "run" only once the init
\* task is done), and the load finds the store as Database::new left it, so it
\* erases the effect of no client command.
C28_SnapshotFirst ==
    [][rdb_file.some =>
          /\ \A c \in Conns : (conn'[c] # conn[c]) => init_task = "done"
          /\ (init_task = "spawned" /\ init_task' = "done") => dict = EmptyDb]_vars

(***************************************************************************)
(* engine.rs replica_handshake, one step at a time, with a leader that     *)
(* answers each request with one value.  replica.step is the step of the   *)
(* handshake (5: the snapshot payload), replica.answers what the leader    *)
(* wrote.                                                                  *)
(***************************************************************************)
ServerPort == <<"6", "3", "8", "0">>

\* The payloads replica_handshake writes, in order.
HandshakeRequests ==
    <<Array(bulk_strings(<<<<"P", "I", "N", "G">>>>)),
      Array(bulk_strings(<<<<"R", "E", "P", "L", "C", "O", "N", "F">>,
                           <<"l", "i", "s", "t", "e", "n", "i", "n", "g", "-", "p", "o", "r", "t">>,
                           ServerPort>>)),
      Array(bulk_strings(<<<<"R", "E", "P", "L", "C", "O", "N", "F">>,
                           <<"c", "a", "p", "a">>, <<"p", "s", "y", "n", "c", "2">>>>)),
      Array(bulk_strings(<<<<"P", "S", "Y", "N", "C">>, <<"?">>, <<"-", "1">>>>))>>

\* The expected_response of the three calls of handshake_step.
ExpectedResponses ==
    <<SimpleString(<<"P", "O", "N", "G">>), SimpleString(<<"O", "K">>),
      SimpleString(<<"O", "K">>)>>

FullResync ==
    SimpleString(<<"F", "U", "L", "L", "R", "E", "S", "Y", "N", "C", " ", "i", "d", " ", "0">>)

Payload == BulkBytes(<<"R", "D">>)

\* What the leader may answer a request with, and what it may send where the
\* follower reads the snapshot.
AnswerLines ==
    {SimpleString(<<"P", "O", "N", "G">>), SimpleString(<<"O", "K">>), FullResync,
     SimpleError(<<"E", "R", "R">>)}

Answers(step) == IF step = 5 THEN {Payload, SimpleString(<<"O", "K">>)} ELSE AnswerLines

InitHandshake ==
    /\ StoreInit
    /\ EngineInit
    /\ WriterInit
    /\ WaitInit
    /\ FnInit /\ StartInit /\ LockInit /\ MirrorInit
    /\ replica = [pc |-> "write", step |-> 1, answers |-> <<>>, reader |-> StreamReader_new,
                  stream |-> <<>>, written |-> <<>>, nread |-> 0]
    /\ leader_frames = <<>>
    /\ peer_closed = {}

\* write_all(&payload.serialize()) of handshake_step and of the PSYNC step.
HandshakeWrite ==
    /\ replica.pc = "write"
    /\ replica' = [replica EXCEPT !.pc = "read",
                                  !.written = Append(@, HandshakeRequests[replica.step])]
    /\ UNCHANGED <<storeVars, engineVars, replVars, waitVars, leader_frames, peer_closed,
                   histVars, fnVars, startVars, lockVars, mirrorVars, pipeVars>>

\* The leader answers the request the follower waits on.
LeaderReply(answer) ==
    /\ replica.pc = "read"
    /\ replica.stream = <<>>
    /\ replica' = [replica EXCEPT !.stream = serialize(answer), !.answers = Append(@, answer)]
    /\ UNCHANGED <<storeVars, engineVars, replVars, waitVars, leader_frames, peer_closed,
                   histVars, fnVars, startVars, lockVars, mirrorVars, pipeVars>>

\* The read after a write.  handshake_step (steps 1 to 3) compares the
\* response with expected_response; the read after PSYNC only logs the
\* response; then the payload is read and, in handle_replication_connection,
\* the byte counter is reset.
HandshakeRead ==
    /\ replica.pc = "read"
    /\ replica.stream # <<>>
    /\ LET response == read_resp_value(replica.stream)
           bytes == read_bulk_bytes_from_tcp_stream(replica.stream)
       IN  replica' =
             IF replica.step <= 3
             THEN IF response.res.ok /\ response.res.v = Some(ExpectedResponses[replica.step])
                  THEN [replica EXCEPT !.pc = "write", !.step = @ + 1, !.stream = response.rest,
                                       !.reader = count_bytes(@, response.count)]
                  ELSE [replica EXCEPT !.pc = "closed", !.stream = response.rest]
             ELSE IF replica.step = 4
             THEN IF response.res.ok
                  THEN [replica EXCEPT !.step = 5, !.stream = response.rest,
                                       !.reader = count_bytes(@, response.count)]
                  ELSE [replica EXCEPT !.pc = "closed", !.stream = response.rest]
             ELSE IF bytes.res.ok
                  THEN [replica EXCEPT !.pc = "listen", !.stream = bytes.rest,
                                       !.reader = reset_byte_counter(
                                                      count_bytes(@, bytes.count))]
                  ELSE [replica EXCEPT !.pc = "closed", !.stream = bytes.rest]
    /\ UNCHANGED <<storeVars, engineVars, replVars, waitVars, leader_frames, peer_closed,
                   histVars, fnVars, startVars, lockVars, mirrorVars, pipeVars>>

NextHandshake ==
    \/ HandshakeWrite
    \/ \E answer \in Answers(replica.step) : LeaderReply(answer)
    \/ HandshakeRead
    \/ \E frame \in FollowerFrames : replica.pc = "listen" /\ LeaderSend(frame)
    \/ \E overflow_checks \in BOOLEAN : ReplicaListen(overflow_checks)

SpecHandshake == InitHandshake /\ [][NextHandshake]_vars

\* The answer the leader is expected to give at a step.
ExpectedAnswer(step) ==
    IF step <= 3 THEN ExpectedResponses[step] ELSE IF step = 4 THEN FullResync ELSE Payload

\* The follower has read the i-th answer of the leader.
AnswerRead(i) == i < Len(replica.answers) \/ replica.pc # "read" \/ replica.stream = <<>>

\* C29: the follower writes PING, REPLCONF listening-port, REPLCONF capa
\* psync2 and PSYNC ? -1 in this order, each after the expected reply to the
\* one before; it listens for replicated commands only after FULLRESYNC and the
\* snapshot payload; an answer other than the expected one, once read, ends
\* the session.
C29_Handshake ==
    /\ \A i \in 1..Min(Len(replica.written), 4) :
           /\ replica.written[i] = HandshakeRequests[i]
           /\ i > 1 => replica.answers[i - 1] = ExpectedAnswer(i - 1)
    /\ replica.pc = "listen"
           => /\ Len(replica.answers) = 5
              /\ \A i \in 1..5 : replica.answers[i] = ExpectedAnswer(i)
    /\ \A i \in 1..Len(replica.answers) :
           (replica.answers[i] # ExpectedAnswer(i) /\ AnswerRead(i)) => replica.pc = "closed"

(***************************************************************************)
(* A follower whose connection closes.  The task of the connection         *)
(* (server.rs handle_request, in handle_replica_connection) ends when a    *)
(* write to the closed connection fails; nothing else runs for the         *)
(* connection.  peer_closed holds the followers that have closed.          *)
(***************************************************************************)
CloseFollowers == {1}

InitClose ==
    /\ StoreInit
    /\ EngineInit
    /\ WriterInit
    /\ WaitInitOf(CloseFollowers, Waits)
    /\ NetInit
    /\ FnInit /\ StartInit /\ LockInit /\ MirrorInit

\* The follower closes its connection.
FollowerClose(f) ==
    /\ follower[f].pc \notin {"connect", "closed"}
    /\ f \notin peer_closed
    /\ peer_closed' = peer_closed \cup {f}
    /\ UNCHANGED <<storeVars, engineVars, replVars, waitVars, replica, leader_frames,
                   histVars, fnVars, startVars, lockVars, mirrorVars, pipeVars>>

\* handle_replica_connection, the head of the loop and then a write_all that
\* fails: the error goes up through handle_request and the task ends.
FollowerWriteFails(f) ==
    /\ follower[f].pc = "loop"
    /\ f \in peer_closed
    /\ LET popped == pop_write_command(write_queue, clients[f].v)
           client_offset_update_request == clients[f].v.offset_update = "UpdateRequested"
       IN  /\ popped.commands # <<>> \/ client_offset_update_request
           /\ clients' = [clients EXCEPT ![f] =
                   Some(IF client_offset_update_request
                        THEN [popped.client_info EXCEPT !.offset_update = "Updating"]
                        ELSE popped.client_info)]
           /\ follower' = [follower EXCEPT ![f].pc = "closed"]
    /\ UNCHANGED <<nreplies, storeVars, engineVars, netVars, histVars, fnVars, startVars, lockVars, mirrorVars,
                   pipeVars, replVars, waits, wr_read_client_offset_notify,
                   wr_cmd_propagation_notify, wait_timers, reported>>

NextClose ==
    \/ LeaderWrite(WaitCmd)
    \/ \E f \in CloseFollowers, psync_offset \in PsyncOffsets : Psync(f, psync_offset)
    \/ \E f \in CloseFollowers : FollowerClose(f)
    \/ \E f \in CloseFollowers : FollowerLoop(f)
    \/ \E f \in CloseFollowers : FollowerWriteFails(f)
    \/ \E f \in CloseFollowers : FollowerAwait(f)
    \/ \E f \in CloseFollowers, client_offset \in AckValues :
           f \notin peer_closed /\ FollowerAck(f, client_offset)
    \/ \E f \in CloseFollowers : FollowerNoAck(f)
    \/ \E w \in Waits, replica_count \in WaitCounts, timeout_ms \in WaitTimeouts :
           WaitStart(w, replica_count, timeout_ms)
    \/ \E w \in Waits : WaitScan(w)
    \/ \E w \in Waits : WaitAwait(w)
    \/ \E t \in DOMAIN wait_timers : WaitTimerFire(t)
    \/ WaitTick

SpecClose == InitClose /\ [][NextClose]_vars

\* C30: once the task of a follower's connection has ended, the leader holds
\* no record of the follower, and a WAIT adds the follower to the followers it
\* counts no more.
C30_RecordWhileOpen ==
    /\ [](\A f \in CloseFollowers : clients[f].some => follower[f].pc # "closed")
    /\ [][\A w \in Waits, f \in CloseFollowers :
            (follower[f].pc = "closed" /\ f \in waits'[w].up_to_date_replicas)
                => (waits'[w].pc = waits[w].pc \/ f \in waits[w].up_to_date_replicas)]_vars

(***************************************************************************)
(* The write queue and the follower tasks that drain it: several followers *)
(* that register at different moments, a leader that propagates distinct   *)
(* commands.                                                               *)
(***************************************************************************)
QueueFollowers == {1, 2}
QueueCmds == {Set(EngKey, <<"v">>, None), Rpush(EngKey, <<<<"x">>>>)}

InitQueue ==
    /\ StoreInit
    /\ EngineInit
    /\ WriterInit
    /\ WaitInitOf(QueueFollowers, Waits)
    /\ NetInit
    /\ FnInit /\ StartInit /\ LockInit /\ MirrorInit

\* A client's propagatable command on the leader: the store method, then
\* push_write_command and wr_cmd_propagation_notify.notify_waiters().
QueueWrite(command) ==
    /\ Len(write_queue) < MaxQueue
    /\ dict' = run_store(dict, command, now, FALSE).db
    /\ LET writer == push_write_command([offset |-> offset, write_queue |-> write_queue],
                                        command)
       IN  /\ offset' = writer.offset
           /\ write_queue' = writer.write_queue
    /\ wr_cmd_propagation_notify' = notify_waiters(wr_cmd_propagation_notify)
    /\ follower' = WakeFollowers(follower, woken_by_all(wr_cmd_propagation_notify))
    /\ UNCHANGED <<nreplies, now, storeHistory, engineVars, netVars, histVars, fnVars,
                   startVars, lockVars, mirrorVars, pipeVars, clients, waits, wr_read_client_offset_notify,
                   wait_timers, reported>>

NextQueue ==
    \/ \E command \in QueueCmds : QueueWrite(command)
    \/ \E f \in QueueFollowers, psync_offset \in PsyncOffsets : Psync(f, psync_offset)
    \/ \E f \in QueueFollowers : FollowerLoop(f)
    \/ \E f \in QueueFollowers : FollowerAwait(f)

SpecQueue == InitQueue /\ [][NextQueue]_vars

\* C31: what the leader has written to a follower is a prefix of the write
\* queue, as long as the follower's index says; the index never decreases and
\* never exceeds the last index of the queue.
C31_SentPrefix ==
    /\ [](\A f \in QueueFollowers :
             /\ IsPrefix(follower[f].sent, write_queue)
             /\ clients[f].some
                   => /\ clients[f].v.last_synced_command_index <= Len(write_queue) - 1
                      /\ Len(follower[f].sent) = clients[f].v.last_synced_command_index + 1)
    /\ [][\A f \in QueueFollowers :
             (clients[f].some /\ clients'[f].some)
                 => clients'[f].v.last_synced_command_index
                        >= clients[f].v.last_synced_command_index]_vars

C31_Witness ==
    /\ Len(write_queue) = MaxQueue
    /\ write_queue[1] # write_queue[2]
    /\ \A f \in QueueFollowers : follower[f].sent = write_queue
    /\ \E f \in QueueFollowers : clients[f].v.offset > 0

\* The same runs under fair scheduling of the follower tasks: a task that can
\* take a step of its loop, or can reach its await, eventually does.
SpecQueueFair ==
    /\ SpecQueue
    /\ \A f \in QueueFollowers : WF_vars(FollowerLoop(f)) /\ WF_vars(FollowerAwait(f))

\* C32: from any moment at which a follower is registered, the leader
\* eventually has written the whole write queue to it.
C32_Delivered ==
    \A f \in QueueFollowers :
        [](follower[f].pc # "connect" => <>(follower[f].sent = write_queue))

(***************************************************************************)
(* Claims about the ack state of a follower record (Idle, UpdateRequested, *)
(* Updating), checked with two WAIT calls under way at once.               *)
(***************************************************************************)
\* C33: the leader writes GETACK to a follower (the task goes to "getack")
\* only in the step that moves the record from UpdateRequested to Updating;
\* a scan of WAIT changes a state only from Idle to UpdateRequested; while a
\* GETACK is outstanding the state is Updating.
C33_SingleGetAck ==
    /\ [](\A f \in DeadlineFollowers :
             follower[f].pc = "getack" => clients[f].v.offset_update = "Updating")
    /\ [][\A f \in DeadlineFollowers :
             /\ (follower'[f].pc = "getack" /\ follower[f].pc # "getack")
                    => /\ clients[f].v.offset_update = "UpdateRequested"
                       /\ clients'[f].v.offset_update = "Updating"
             /\ ((\E w \in DeadlineWaits :
                      waits[w].pc = "scan" /\ waits'[w].pc \in {"await", "done"})
                   /\ clients'[f] # clients[f])
                    => /\ clients[f].v.offset_update = "Idle"
                       /\ clients'[f].v.offset_update = "UpdateRequested"]_vars

C33_Witness ==
    /\ \A w \in DeadlineWaits : waits[w].pc \in {"await", "blocked"}
    /\ follower[1].pc = "getack"
    /\ clients[1].v.offset_update = "Updating"
    /\ nreplies = 0

\* C34: the round of a GETACK ends with the record's state at Idle, whether
\* REPLCONF ACK arrived, the deadline passed or another frame arrived.
C34_RoundEndsIdle ==
    [][\A f \in Followers :
          (follower[f].pc = "getack" /\ follower'[f].pc # "getack")
              => clients'[f].v.offset_update = "Idle"]_vars

(***************************************************************************)
(* Claims about the locks of the engine (checked under Spec).              *)
(***************************************************************************)
\* C35: while a connection runs the loop of EXEC, the task of another
\* connection that has read a command can dispatch it: the transaction_store
\* mutex that is_transaction takes in execute is free.
C35_ExecBlocksNobody ==
    \A c, d \in Conns :
        (c # d /\ InExec(conn[c]) /\ conn[d].pc = "read") => tx_lock = 0

(***************************************************************************)
(* The lock of replication_role (engine.rs 37: a tokio RwLock).  The lock  *)
(* is fair: a guard is given at once only when nobody waits and the guards *)
(* held allow it; otherwise the task waits in a queue served in order, so  *)
(* a read asked for behind a waiting write waits for that write.           *)
(***************************************************************************)
Task(kind, id) == [kind |-> kind, id |-> id]
InfoTask == Task("info", 0)

Holders(l) == {l.readers[i] : i \in DOMAIN l.readers} \cup ({l.writer} \ {NoTask})
Waiters(l) == {l.queue[i].task : i \in DOMAIN l.queue}
ReadGuards(l, t) == Cardinality({i \in DOMAIN l.readers : l.readers[i] = t})

\* RwLock::read and RwLock::write up to the first poll.
acquire_read(l, t) ==
    IF l.writer = NoTask /\ l.queue = <<>>
    THEN [l EXCEPT !.readers = Append(@, t)]
    ELSE [l EXCEPT !.queue = Append(@, [task |-> t, mode |-> "read"])]

acquire_write(l, t) ==
    IF l.writer = NoTask /\ l.readers = <<>> /\ l.queue = <<>>
    THEN [l EXCEPT !.writer = t]
    ELSE [l EXCEPT !.queue = Append(@, [task |-> t, mode |-> "write"])]

\* The permits a dropped guard returns go to the waiting tasks in order.
RECURSIVE grant(_)
grant(l) ==
    IF l.queue = <<>> \/ l.writer # NoTask
    THEN l
    ELSE IF Head(l.queue).mode = "read"
    THEN grant([l EXCEPT !.readers = Append(@, Head(l.queue).task), !.queue = Tail(@)])
    ELSE IF l.readers = <<>>
    THEN [l EXCEPT !.writer = Head(l.queue).task, !.queue = Tail(@)]
    ELSE l

\* Drop of a read guard of t, and of the write guard.
release_read(l, t) ==
    LET i == CHOOSE i \in DOMAIN l.readers : l.readers[i] = t
    IN  grant([l EXCEPT !.readers = SubSeq(@, 1, i - 1) \o SubSeq(@, i + 1, Len(@))])

release_write(l) == grant([l EXCEPT !.writer = NoTask])

Replid == <<"i", "d">>

\* section_info("replication") of a leader (engine.rs 884).
replication_info(replid, writer_offset) ==
    <<"#", " ", "R", "e", "p", "l", "i", "c", "a", "t", "i", "o", "n">> \o CRLF
    \o <<"r", "o", "l", "e", ":", "m", "a", "s", "t", "e", "r">> \o CRLF
    \o <<"m", "a", "s", "t", "e", "r", "_", "r", "e", "p", "l", "i", "d", ":">> \o replid \o CRLF
    \o <<"m", "a", "s", "t", "e", "r", "_", "r", "e", "p", "l", "_", "o", "f", "f", "s", "e",
         "t", ":">> \o to_string(writer_offset) \o CRLF \o CRLF

LockCmds == {Set(EngKey, <<"v">>, None)}
LockWaits == {1}

InitLock ==
    /\ StoreInit
    /\ EngineInit
    /\ WriterInit
    /\ WaitInitOf(DeadlineFollowers, LockWaits)
    /\ NetInit
    /\ FnInit /\ StartInit /\ LockInit /\ MirrorInit

\* INFO replication: the scrutinee of the match in section_info,
\* replication_role.read().await; its guard lives to the end of the match.
InfoStart ==
    /\ info_task.pc \in {"idle", "done"}
    /\ info_task' = [pc |-> "outer", reply |-> None]
    /\ role_lock' = acquire_read(role_lock, InfoTask)
    /\ UNCHANGED <<storeVars, engineVars, replVars, waitVars, netVars, histVars, pipeVars,
                   fnVars, startVars, mirrorVars>>

\* The Writer arm: replication_role.read().await again, with the first guard
\* held.
InfoInner ==
    /\ info_task.pc = "outer"
    /\ ReadGuards(role_lock, InfoTask) = 1
    /\ info_task' = [info_task EXCEPT !.pc = "inner"]
    /\ role_lock' = acquire_read(role_lock, InfoTask)
    /\ UNCHANGED <<storeVars, engineVars, replVars, waitVars, netVars, histVars, pipeVars,
                   fnVars, startVars, mirrorVars>>

\* The second guard is given: the offset is read, the text formatted, both
\* guards dropped and the text returned as a bulk string.
InfoReply ==
    /\ info_task.pc = "inner"
    /\ ReadGuards(role_lock, InfoTask) = 2
    /\ info_task' = [pc |-> "done", reply |-> Some(BulkString(replication_info(Replid, offset)))]
    /\ role_lock' = release_read(release_read(role_lock, InfoTask), InfoTask)
    /\ UNCHANGED <<storeVars, engineVars, replVars, waitVars, netVars, histVars, pipeVars,
                   fnVars, startVars, mirrorVars>>

\* replication_role.write() of the propagation block (engine.rs 658), of the
\* scan of wait (681) and its drop at the end of the statement.
WriteRequest(t) ==
    /\ t \notin Holders(role_lock) \cup Waiters(role_lock)
    /\ \/ t.kind = "conn" /\ t.id \in Conns /\ conn[t.id].pc = "prop"
       \/ t.kind = "wait" /\ t.id \in LockWaits /\ waits[t.id].pc = "scan"
    /\ role_lock' = acquire_write(role_lock, t)
    /\ UNCHANGED <<storeVars, engineVars, replVars, waitVars, netVars, histVars, pipeVars,
                   fnVars, startVars, mirrorVars, info_task>>

WriteRelease(t) ==
    /\ role_lock.writer = t
    /\ \/ t.kind = "conn" /\ conn[t.id].pc # "prop"
       \/ t.kind = "wait" /\ waits[t.id].pc # "scan"
    /\ role_lock' = release_write(role_lock)
    /\ UNCHANGED <<storeVars, engineVars, replVars, waitVars, netVars, histVars, pipeVars,
                   fnVars, startVars, mirrorVars, info_task>>

LockTasks == {Task("conn", c) : c \in Conns} \cup {Task("wait", w) : w \in LockWaits}

NextLock ==
    \/ InfoStart
    \/ InfoInner
    \/ InfoReply
    \/ \E t \in LockTasks : WriteRequest(t)
    \/ \E t \in LockTasks : WriteRelease(t)
    \/ \E c \in Conns, command \in LockCmds :
           Execute(c, command) /\ UNCHANGED <<netVars, histVars, fnVars, startVars, lockVars,
                                              mirrorVars, pipeVars>>
    \/ \E c \in Conns, overflow_checks \in BOOLEAN : ExecuteStore(c, overflow_checks)
    \/ \E c \in Conns : role_lock.writer = Task("conn", c) /\ Propagate(c)
    \/ \E w \in LockWaits, replica_count \in WaitCounts, timeout_ms \in DeadlineTimeouts :
           /\ now + timeout_ms <= MaxTime
           /\ role_lock.writer = NoTask /\ role_lock.queue = <<>>
           /\ WaitStart(w, replica_count, timeout_ms)
    \/ \E w \in LockWaits : role_lock.writer = Task("wait", w) /\ WaitScan(w)

SpecLock == InitLock /\ [][NextLock]_vars

\* C36: the lock of replication_role never deadlocks: whenever a task waits
\* for it, some task holding a guard is not itself waiting for the lock, so
\* an INFO replication running beside a propagatable write or a WAIT gets its
\* guards.
C36_NoLockDeadlock ==
    role_lock.queue # <<>> => Holders(role_lock) \ Waiters(role_lock) # {}

(***************************************************************************)
(* A follower that answers every GETACK in time with its own byte counter: *)
(* the bytes of the frames it has read before that GETACK, the earlier     *)
(* GETACK frames among them (network.rs 92-111).                           *)
(***************************************************************************)
InitAck ==
    /\ StoreInit
    /\ EngineInit
    /\ WriterInit
    /\ WaitInitOf(DeadlineFollowers, DeadlineWaits)
    /\ NetInit
    /\ FnInit /\ StartInit /\ LockInit /\ MirrorInit

\* The byte counter of follower f when it reads the GETACK of this round.
byte_count(f) == wire_length(follower[f].sent) + nreplies * Len(serialize(GetAck))

NextAck ==
    \/ \E command \in QueueCmds : QueueWrite(command)
    \/ \E f \in DeadlineFollowers : Psync(f, -1)
    \/ \E f \in DeadlineFollowers : FollowerLoop(f)
    \/ \E f \in DeadlineFollowers : FollowerAwait(f)
    \/ \E f \in DeadlineFollowers : FollowerAck(f, byte_count(f))
    \/ \E w \in DeadlineWaits, timeout_ms \in DeadlineTimeouts :
           /\ now + timeout_ms <= MaxTime
           /\ WaitStart(w, 1, timeout_ms)
    \/ \E w \in DeadlineWaits : WaitScan(w)
    \/ \E w \in DeadlineWaits : WaitAwait(w)
    \/ \E t \in DOMAIN wait_timers : WaitTimerFire(t)
    \/ WaitTick

SpecAck == InitAck /\ [][NextAck]_vars

\* C37: the offset the leader holds for a follower never exceeds the
\* serialized length of the commands written to that follower, so a follower
\* that WAIT counts as up to date has been sent every command that was in the
\* queue when the WAIT started.
C37_AckWithinSent ==
    \A f \in DeadlineFollowers :
        /\ clients[f].some => clients[f].v.offset <= wire_length(follower[f].sent)
        /\ \A w \in DeadlineWaits :
               f \in waits[w].up_to_date_replicas
                   => wire_length(follower[f].sent) >= waits[w].writer_offset

(***************************************************************************)
(* A leader with one client connection and a follower that executes the    *)
(* write queue: listen_for_replication_updates reads each frame the task   *)
(* of the follower wrote, parses it and runs execute_only on its own       *)
(* store, replica_db.                                                      *)
(***************************************************************************)
MirrorConn == 1
MirrorField == <<<<"f">>, <<"v">>>>
MirrorCmds ==
    {Set(EngKey, <<"6">>, None), Incr(EngKey), Rpush(EngKey, <<<<"x">>>>),
     Lpush(EngKey, <<<<"y">>>>), Lpop(EngKey), Rpopn(EngKey, 2),
     Xadd(EngKey, Full(0, 1), <<MirrorField>>), Multi, Exec, Discard}

\* The arm of INCR of CommandParser::parse: the name and a key.
parse_incr(items) ==
    LET str_items == get_strings_exact(items, 2, "incr")
    IN  IF ~str_items.ok THEN str_items ELSE Ok(Incr(str_items.v[2]))

\* CommandParser::parse of the follower.
replica_parse(input) ==
    IF /\ input.tag = "Array"
       /\ input.list # <<>>
       /\ as_string(input.list[1]).some
       /\ to_lowercase(as_string(input.list[1]).v) = <<"i", "n", "c", "r">>
    THEN parse_incr(input.list)
    ELSE parse(input)

\* The frame of a queued command as the follower reads and parses it.
replica_read(command) ==
    LET r == read_resp_value(serialize(into_resp(command)))
    IN  IF ~r.res.ok THEN r.res
        ELSE IF ~r.res.v.some THEN Err("closed")
        ELSE replica_parse(r.res.v.v)

InitMirror ==
    /\ StoreInit
    /\ EngineInit
    /\ WriterInit
    /\ WaitInit
    /\ NetInit
    /\ FnInit /\ StartInit /\ LockInit /\ MirrorInit

\* One turn of the loop of listen_for_replication_updates.  A frame that
\* does not parse, and a panic of the command, end the loop: the follower
\* executes nothing after it.
ReplicaExecute(overflow_checks) ==
    /\ replica_applied < Len(write_queue)
    /\ LET command == replica_read(write_queue[replica_applied + 1])
           r == run_store(replica_db, command.v, now, overflow_checks)
       IN  /\ command.ok
           /\ command.v.op \in StoreOps
           /\ ~r.panic
           /\ replica_db' = r.db
    /\ replica_applied' = replica_applied + 1
    /\ UNCHANGED <<storeVars, engineVars, replVars, waitVars, netVars, histVars, pipeVars,
                   fnVars, startVars, lockVars>>

NextMirror ==
    \/ \E command \in MirrorCmds :
           ncmds < MaxMirrorCmds
           /\ Execute(MirrorConn, command)
           /\ UNCHANGED <<netVars, histVars, fnVars, startVars, lockVars, mirrorVars, pipeVars>>
    \/ Queue(MirrorConn)
    \/ ExecuteMulti(MirrorConn)
    \/ ExecuteExec(MirrorConn)
    \/ ExecuteDiscard(MirrorConn)
    \/ \E overflow_checks \in BOOLEAN : ExecuteStore(MirrorConn, overflow_checks)
    \/ Propagate(MirrorConn)
    \/ \E overflow_checks \in BOOLEAN : ReplicaExecute(overflow_checks)

SpecMirror == InitMirror /\ [][NextMirror]_vars

\* C38: with one client connection sending SET without expiry, INCR, RPUSH,
\* LPUSH, LPOP, RPOP with a count, XADD with a full id, MULTI, EXEC and
\* DISCARD, whenever the connection is between two commands and the follower
\* has executed the whole write queue, the store of the follower equals the
\* store of the leader.
C38_FollowerEqualsLeader ==
    (conn[MirrorConn].pc \in {"read", "closed"} /\ replica_applied = Len(write_queue))
        => replica_db = dict

\* The follower has executed a queue written by an EXEC, with a command that
\* failed on the leader in it, and both stores hold a list.
C38_Witness ==
    /\ conn[MirrorConn].pc = "read"
    /\ conn[MirrorConn].reply.tag = "Array"
    /\ Len(conn[MirrorConn].reply.list) = 2
    /\ replica_applied = Len(write_queue)
    /\ Len(write_queue) >= 2
    /\ \E i \in 1..Len(write_queue) : write_queue[i].op = "Incr"
    /\ dict[EngKey].t = "list"
    /\ replica_db = dict

(***************************************************************************)
(* Blocking and plain pops of several connections on one list.             *)
(***************************************************************************)
PopCmds ==
    {Blpop(<<EngKey>>, 1), Brpop(<<EngKey>>, 1), Lpop(EngKey), Rpop(EngKey),
     Rpush(EngKey, <<<<"x">>, <<"y">>>>)}

InitPop ==
    /\ StoreInit
    /\ EngineInitOf(BlockConns)
    /\ WriterInit
    /\ WaitInit
    /\ NetInit
    /\ FnInit /\ StartInit /\ LockInit /\ MirrorInit

NextPop ==
    \/ \E c \in BlockConns, command \in PopCmds :
           /\ ncmds < MaxPopCmds
           /\ Execute(c, command)
           /\ UNCHANGED <<netVars, histVars, fnVars, startVars, lockVars, mirrorVars, pipeVars>>
    \/ \E c \in BlockConns : ExecuteStore(c, FALSE)
    \/ \E c \in BlockConns : Propagate(c)
    \/ \E c \in BlockConns : BlockingPop(c)
    \/ \E c \in BlockConns : AwaitNotified(c)
    \/ \E t \in DOMAIN timers : TimerFire(t)
    \/ EngTick

SpecPop == InitPop /\ [][NextPop]_vars

\* The value the pop of connection c returns in this step, as a sequence
\* (empty: no pop of c returns a value in this step).
Returned(c) ==
    IF conn[c].pc # "run" \/ conn'[c] = conn[c] THEN <<>>
    ELSE IF conn[c].cur.op \in {"Lpop", "Rpop"}
    THEN IF conn'[c].value.tag = "BulkString" THEN <<conn'[c].value.s>> ELSE <<>>
    ELSE IF conn[c].cur.op \in {"Blpop", "Brpop"}
    THEN IF conn'[c].reply.tag = "Array" THEN <<conn'[c].reply.list[2].s>> ELSE <<>>
    ELSE <<>>

\* The values the push of connection c appends in this step.
Pushed(c) ==
    IF conn[c].pc = "run" /\ conn[c].cur.op = "Rpush" /\ conn'[c].pc = "prop"
       /\ conn'[c].value.tag = "Integer"
    THEN conn[c].cur.values
    ELSE <<>>

\* C39: in every step at most one pop returns a value; the value it returns
\* is the element that left the list, at the end the pop takes from, and an
\* element leaves the list only in this way; the list grows only by the
\* values of a push.  So the values in the list and the values returned by
\* pops are, together, the values pushed, each once.
C39_PopOnce ==
    [][LET before == array_of(dict, EngKey)
           after == array_of(dict', EngKey)
           winners == {c \in BlockConns : Returned(c) # <<>>}
           pushers == {c \in BlockConns : Pushed(c) # <<>>}
       IN  /\ Cardinality(winners) <= 1
           /\ \A c \in winners :
                  IF conn[c].cur.op \in {"Lpop", "Blpop"}
                  THEN before = Returned(c) \o after
                  ELSE before = after \o Returned(c)
           /\ Cardinality(pushers) <= 1
           /\ \A c \in pushers : after = before \o Pushed(c)
           /\ (winners = {} /\ pushers = {}) => after = before]_vars

\* Two values were pushed; a blocking pop of one connection and a plain pop
\* of another have returned one each, and the list is empty again.
C39_Witness ==
    /\ Len(applied) = 2
    /\ applied[1].op = "Rpush"
    /\ applied[2].op \in {"Lpop", "Rpop"}
    /\ \E c, d \in BlockConns :
           /\ c # d
           /\ conn[c].pc = "read" /\ conn[c].reply.tag = "Array" /\ Len(conn[c].reply.list) = 2
           /\ conn[d].pc = "read" /\ conn[d].reply.tag = "BulkString"
           /\ conn[d].reply.s # conn[c].reply.list[2].s
    /\ array_of(dict, EngKey) = <<>>

(***************************************************************************)
(* What a command yields, by the state of the connection and of the node:  *)
(* Ok(value) for a reply, Err(text) for an Err that leaves the handler     *)
(* through `?`, Err("panic") for a panic.  node.is_writer is the role,     *)
(* node.has_record whether writer.clients holds a record of the            *)
(* connection; tx is the buffer of the connection in transaction_store.    *)
(***************************************************************************)
U16_MAX == 65535

\* u16::from_str_radix(s, 10)
u16_from_str_radix(s) ==
    IF s = <<>> THEN Err("ParseIntError")
    ELSE LET body == IF Head(s) = "+" THEN Tail(s) ELSE s
             m    == parse_digits(body, 0, U16_MAX)
         IN  IF body = <<>> \/ m < 0 THEN Err("ParseIntError") ELSE Ok(m)

PsyncCmd == [op |-> "Psync", replication_id |-> <<"?">>, offset |-> -1]

is_psync(command) == command.op = "Psync"

\* ClientCapability::from_str
ClientCapability_from_str(raw) ==
    IF to_lowercase(raw) = <<"p", "s", "y", "n", "c", "2">> THEN Some("Psync2") ELSE None

\* The REPLCONF arm of execute_only.
execute_replconf(args, node, current_offset) ==
    IF node.is_writer
    THEN IF Len(args) = 2
            /\ to_lowercase(args[1])
                   = <<"l", "i", "s", "t", "e", "n", "i", "n", "g", "-", "p", "o", "r", "t">>
         THEN IF u16_from_str_radix(args[2]).ok THEN Ok(SimpleString("OK"))
              ELSE Err("panic")
         ELSE IF Len(args) = 2 /\ to_lowercase(args[1]) = <<"c", "a", "p", "a">>
         THEN IF ClientCapability_from_str(args[2]).some THEN Ok(SimpleString("OK"))
              ELSE Err("ERR invalid client capability")
         ELSE IF Len(args) = 2 /\ to_lowercase(args[1]) = <<"a", "c", "k">>
         THEN IF ~usize_from_str_radix(args[2]).ok THEN Err("ParseIntError")
              ELSE IF ~node.has_record THEN Err("panic")
              ELSE Ok(NullBulkString)
         ELSE Ok(SimpleError("ERR unrecognized argument for 'replconf' command"))
    ELSE IF Len(args) = 2 /\ to_lowercase(args[1]) = <<"g", "e", "t", "a", "c", "k">>
         THEN Ok(Array(bulk_strings(<<<<"R", "E", "P", "L", "C", "O", "N", "F">>,
                                      <<"A", "C", "K">>, to_string(current_offset)>>)))
         ELSE Ok(SimpleError("ERR writer commands on a non-writer node"))

\* The arms of execute_only for PING, REPLCONF, PSYNC and WAIT, and for EXEC
\* and DISCARD outside a transaction.  WAIT is run on a leader whose offset
\* is 0 and whose only follower record, if any, is the one of the connection.
execute_only(command, node) ==
    CASE command.op = "Ping" -> Ok(SimpleString("PONG"))
      [] command.op = "Replconf" -> execute_replconf(command.args, node, 0)
      [] command.op = "Psync" -> Err("panic")
      [] command.op = "Wait" ->
            IF ~node.is_writer THEN Err("panic")
            ELSE Ok(Integer(IF node.has_record THEN 1 ELSE 0))
      [] command.op = "Exec" -> Ok(SimpleError("ERR EXEC without MULTI"))
      [] command.op = "Discard" -> Ok(SimpleError("ERR DISCARD without MULTI"))

\* The loop of the EXEC arm: execute_only(..).await? for each queued command.
RECURSIVE execute_queued(_, _, _)
execute_queued(commands, subvalues, node) ==
    IF commands = <<>> THEN Ok(Array(subvalues))
    ELSE LET subvalue == execute_only(Head(commands), node)
         IN  IF ~subvalue.ok THEN subvalue
             ELSE execute_queued(Tail(commands), Append(subvalues, subvalue.v), node)

\* Engine::execute for a command of a connection.
execute(command, tx, node) ==
    IF ~is_exec(command) /\ ~is_discard(command) /\ tx.some
    THEN IF is_multi(command) THEN Ok(SimpleString("ERR MULTI calls can not be nested"))
         ELSE Ok(SimpleString("QUEUED"))
    ELSE IF is_psync(command)
    THEN IF ~node.is_writer THEN Ok(SimpleError("ERR writer commands on a non-writer node"))
         ELSE Ok(FullResync)
    ELSE IF is_exec(command) /\ tx.some THEN execute_queued(tx.v, <<>>, node)
    ELSE IF is_discard(command) /\ tx.some THEN Ok(SimpleString("OK"))
    ELSE execute_only(command, node)

ReplconfArgs ==
    {<<<<"l", "i", "s", "t", "e", "n", "i", "n", "g", "-", "p", "o", "r", "t">>, ServerPort>>,
     <<<<"l", "i", "s", "t", "e", "n", "i", "n", "g", "-", "p", "o", "r", "t">>, <<"x">>>>,
     <<<<"c", "a", "p", "a">>, <<"p", "s", "y", "n", "c", "2">>>>,
     <<<<"c", "a", "p", "a">>, <<"e", "o", "f">>>>,
     <<<<"A", "C", "K">>, <<"0">>>>,
     <<<<"A", "C", "K">>, <<"x">>>>,
     <<<<"G", "E", "T", "A", "C", "K">>, <<"*">>>>,
     <<<<"A", "C", "K">>>>}

DispatchCmds ==
    {Ping, PsyncCmd, Wait(1, 1), Exec, Discard} \cup {Replconf(args) : args \in ReplconfArgs}

\* The buffers of a connection: none, or up to MaxTx commands queued.
DispatchQueued == {Ping, PsyncCmd, Wait(1, 1), Replconf(<<<<"A", "C", "K">>, <<"0">>>>)}
DispatchTxs ==
    {None} \cup {Some(q) : q \in UNION {[1..n -> DispatchQueued] : n \in 0..MaxTx}}

DispatchNodes == [is_writer : BOOLEAN, has_record : BOOLEAN]

InitDispatch ==
    InitOf({Some([command |-> command, tx |-> tx, node |-> node]) :
                command \in DispatchCmds, tx \in DispatchTxs, node \in DispatchNodes})

Dispatch ==
    /\ ~fn_res.some
    /\ fn_res' = Some(execute(fn_arg.v.command, fn_arg.v.tx, fn_arg.v.node))
    /\ UNCHANGED <<storeVars, engineVars, replVars, waitVars, netVars, histVars, pipeVars,
                   startVars, lockVars, mirrorVars, fn_arg>>

NextDispatch == Dispatch

SpecDispatch == InitDispatch /\ [][NextDispatch]_vars

\* C40: for every command, in or out of a transaction, on a leader or a
\* follower, from a connection with or without a follower record, the
\* handler yields a reply or an error; it never panics.
C40_NeverPanics == fn_res.some => fn_res.v # Err("panic")

====
